---- MODULE Spec2Model ----
(***************************************************************************)
(* Model of mitmproxy's typed command layer (src/mitmproxy/command.py):    *)
(*   - AsyncExecutionManager: the tracker of running asynchronous commands *)
(*   - Command / CommandManager: registration, argument preparation, calls *)
(* its lexer (language/lexer.py), the tolerant grammar and its structures  *)
(* (language/interactive_parser.py, language/structures.py), and the       *)
(* console's command buffer (tools/console/commander/commander.py).        *)
(***************************************************************************)
EXTENDS Integers, Sequences, FiniteSets, TLC

\* ------------------------------------------------------------------ bounds
\* Largest number of add_command calls explored (caps the id counter).
MaxCmds == 2

\* Command-line texts handed to async_execute / add_command.
Texts == {"sleep 10", "echo hi"}

\* Ids a caller may pass to stop_command: tracked, stale and never-issued ones
\* (0 is never issued; ids above the counter are not issued yet).
Cids == 0 .. MaxCmds

\* ------------------------------------------------------------------- state
VARIABLES
    counter,        \* AsyncExecutionManager.counter
    running_cmds,   \* AsyncExecutionManager.running_cmds : cid -> RunningCommand
    tasks,          \* the asyncio task behind every issued cid
    ready,          \* event loop's FIFO of scheduled done-callbacks (by cid)
    stopped,        \* cids on which stop_command has returned normally
    asyncRes,       \* operation that ran last on the tracker, and how it ended
    commands,       \* CommandManager.commands : path -> Command
    oneword_commands, \* CommandManager.oneword_commands
    lastreg,        \* per path, the callable most recently registered under it
    cmdRes,         \* operation that ran last on the registry, and how it ended
    argv,           \* the argument list the caller passes to calls
    offered,        \* the commands of the addon handed to collect_commands
    cmdstr,         \* the command line handed to the lexer and the parsers
    langRes,        \* operation that ran last on the language layer, and its result
    master,         \* CommandBuffer.master: the kind of its commands object
    text,           \* CommandBuffer.text
    cursor,         \* CommandBuffer._cursor
    autoclosing,    \* CommandBuffer.autoclosing
    completion,     \* CommandBuffer.completion
    bufRes          \* operation that ran last on the buffer, and how it ended

asyncVars == <<counter, running_cmds, tasks, ready, stopped, asyncRes>>

inputVars == <<argv, offered>>

cmdVars == <<commands, oneword_commands, lastreg, cmdRes, argv, offered>>

langVars == <<cmdstr, langRes>>

bufVars == <<master, text, cursor, autoclosing, completion, bufRes>>

uiVars == <<cmdstr, langRes, master, text, cursor, autoclosing, completion, bufRes>>

vars == <<counter, running_cmds, tasks, ready, stopped, asyncRes,
          commands, oneword_commands, lastreg, cmdRes, argv, offered,
          cmdstr, langRes, master, text, cursor, autoclosing, completion, bufRes>>

\* --------------------------------------------------------------- helpers
\* dict without one key (del d[k])
DelKey(d, k) == [j \in (DOMAIN d) \ {k} |-> d[j]]

\* dict with one key set (d[k] = v)
SetKey(d, k, v) == [j \in (DOMAIN d) \cup {k} |-> IF j = k THEN v ELSE d[j]]

SetMin(S) == CHOOSE m \in S : \A x \in S : m <= x

\* sorted(keys): ascending list of a finite set of integers
RECURSIVE Sorted(_)
Sorted(S) ==
    IF S = {} THEN <<>>
    ELSE LET m == SetMin(S) IN <<m>> \o Sorted(S \ {m})

\* ------------------------------------------------- AsyncExecutionManager
\* RunningCommand(cmdstr, task); the task is named by the cid it is bound to.
RunningCommand(cmdline, task) == [cmdstr |-> cmdline, task |-> task]

\* asyncio.ensure_future(coro): a new pending task, nothing scheduled yet.
NewTask(cmdline) ==
    [text |-> cmdline, state |-> "pending", must_cancel |-> FALSE, hook |-> "registered"]

\* task.cancel(): requests cancellation of a pending task, no-op on a done one.
TaskCancel(t) ==
    IF t.state = "pending" THEN [t EXCEPT !.must_cancel = TRUE] ELSE t

AsyncRes(op, cid, outcome) == [op |-> op, cid |-> cid, outcome |-> outcome]

\* AsyncExecutionManager.__init__
InitAsync ==
    /\ counter = 0
    /\ running_cmds = <<>>
    /\ tasks = <<>>
    /\ ready = <<>>
    /\ stopped = {}
    /\ asyncRes = AsyncRes("init", 0, "ok")

\* add_command with the bug of not advancing the counter past the first id
add_command_stuck(cmdline) ==
    /\ counter < MaxCmds
    /\ LET cid == IF counter = 0 THEN 1 ELSE counter IN
        /\ counter' = cid
        /\ tasks' = SetKey(tasks, cid, NewTask(cmdline))
        /\ running_cmds' = SetKey(running_cmds, cid, RunningCommand(cmdline, cid))
        /\ asyncRes' = AsyncRes("add_command", cid, "ok")
    /\ UNCHANGED <<ready, stopped>>
    /\ UNCHANGED cmdVars
    /\ UNCHANGED uiVars

\* AsyncExecutionManager.add_command, on the task async_execute just created
add_command(cmdline) ==
    /\ counter < MaxCmds
    /\ counter' = counter + 1
    /\ tasks' = SetKey(tasks, counter', NewTask(cmdline))
    /\ running_cmds' = SetKey(running_cmds, counter', RunningCommand(cmdline, counter'))
    /\ asyncRes' = AsyncRes("add_command", counter', "ok")
    /\ UNCHANGED <<ready, stopped>>
    /\ UNCHANGED cmdVars
    /\ UNCHANGED uiVars

\* stop_command with the bug of forgetting `del self.running_cmds[cid]`
stop_command_nodel(cid) ==
    /\ UNCHANGED cmdVars
    /\ UNCHANGED uiVars
    /\ IF cid \notin DOMAIN running_cmds
       THEN /\ asyncRes' = AsyncRes("stop_command", cid, "ValueError")
            /\ UNCHANGED <<counter, running_cmds, tasks, ready, stopped>>
       ELSE /\ tasks' = [tasks EXCEPT ![running_cmds[cid].task] = TaskCancel(@)]
            /\ stopped' = stopped \cup {cid}
            /\ asyncRes' = AsyncRes("stop_command", cid, "ok")
            /\ UNCHANGED <<counter, running_cmds, ready>>

\* AsyncExecutionManager.stop_command
stop_command(cid) ==
    /\ UNCHANGED cmdVars
    /\ UNCHANGED uiVars
    /\ IF cid \notin DOMAIN running_cmds
       THEN /\ asyncRes' = AsyncRes("stop_command", cid, "ValueError")
            /\ UNCHANGED <<counter, running_cmds, tasks, ready, stopped>>
       ELSE /\ tasks' = [tasks EXCEPT ![running_cmds[cid].task] = TaskCancel(@)]
            /\ running_cmds' = DelKey(running_cmds, cid)
            /\ stopped' = stopped \cup {cid}
            /\ asyncRes' = AsyncRes("stop_command", cid, "ok")
            /\ UNCHANGED <<counter, ready>>

\* get_running with the bug of listing ids in descending order
get_running_desc ==
    LET ids == Sorted(DOMAIN running_cmds)
        n == Len(ids)
    IN [k \in 1 .. n |-> <<ids[n + 1 - k], running_cmds[ids[n + 1 - k]].cmdstr>>]

\* AsyncExecutionManager.get_running
get_running ==
    LET ids == Sorted(DOMAIN running_cmds)
    IN [k \in 1 .. Len(ids) |-> <<ids[k], running_cmds[ids[k]].cmdstr>>]

\* How a pending task may finish: by returning, by raising, or - only once
\* cancellation was requested - by being cancelled.
FinishWays(t) ==
    {"result", "exception"} \cup (IF t.must_cancel THEN {"cancelled"} ELSE {})

\* The task of cid finishes; asyncio schedules its done-callback
\* (functools.partial(self._delete_callback, cid=cid)) with call_soon.
task_done(cid) ==
    /\ cid \in DOMAIN tasks
    /\ tasks[cid].state = "pending"
    /\ \E how \in FinishWays(tasks[cid]) :
          tasks' = [tasks EXCEPT ![cid].state = how, ![cid].hook = "scheduled"]
    /\ ready' = Append(ready, cid)
    /\ asyncRes' = AsyncRes("task_done", cid, "ok")
    /\ UNCHANGED <<counter, running_cmds, stopped>>
    /\ UNCHANGED cmdVars
    /\ UNCHANGED uiVars

\* _delete_callback with the bug of not removing the entry
delete_callback_noop ==
    /\ ready # <<>>
    /\ LET cid == Head(ready) IN
        /\ tasks' = [tasks EXCEPT ![cid].hook = "ran"]
        /\ asyncRes' = AsyncRes("_delete_callback", cid, "ok")
    /\ ready' = Tail(ready)
    /\ UNCHANGED <<counter, running_cmds, stopped>>
    /\ UNCHANGED cmdVars
    /\ UNCHANGED uiVars

\* The event loop runs the next scheduled done-callback:
\* AsyncExecutionManager._delete_callback(task, cid).  `del` of a missing key
\* raises KeyError, which the loop's callback runner catches and logs.
delete_callback ==
    /\ ready # <<>>
    /\ LET cid == Head(ready) IN
        /\ tasks' = [tasks EXCEPT ![cid].hook = "ran"]
        /\ IF cid \in DOMAIN running_cmds
           THEN /\ running_cmds' = DelKey(running_cmds, cid)
                /\ asyncRes' = AsyncRes("_delete_callback", cid, "ok")
           ELSE /\ running_cmds' = running_cmds
                /\ asyncRes' = AsyncRes("_delete_callback", cid, "KeyError")
    /\ ready' = Tail(ready)
    /\ UNCHANGED <<counter, stopped>>
    /\ UNCHANGED cmdVars
    /\ UNCHANGED uiVars

\* ---------------------------------------------------------- bounds (registry)
\* Longest argument list handed to a command.
MaxArgs == 3

\* Largest number of commands one addon contributes to collect_commands.
MaxAddon == 2

\* Cap on the length of oneword_commands (it grows on every re-registration).
MaxOneword == 1

\* ------------------------------------------------------------------ values
\* Python values: a str (its characters), an int, None, a coroutine object.
Str(s) == [tag |-> "str", s |-> s, n |-> 0]

IntV(n) == [tag |-> "int", s |-> <<>>, n |-> n]

NoneV == [tag |-> "None", s |-> <<>>, n |-> 0]

CoroV == [tag |-> "coroutine", s |-> <<>>, n |-> 0]

\* isinstance(arg, str)
IsStr(v) == v.tag = "str"

\* Arguments callers pass: strings to coerce and already-typed values.
ArgPool == {Str(<<"1", "7">>), Str(<<"x">>), IntV(7)}

ArgLists == UNION {[1 .. m -> ArgPool] : m \in 0 .. MaxArgs}

\* What the body of a callable may hand back.
RetPool == {NoneV, Str(<<"x">>)}

\* ------------------------------------------------- mitmproxy.types.CommandTypes
\* Type identifiers that have an entry in the type registry.
CommandTypes == {"str", "int"}

\* display name of a registered type
Display(t) == t

Digits == <<"0", "1", "2", "3", "4", "5", "6", "7", "8", "9">>

IsDigit(c) == \E d \in 1 .. Len(Digits) : Digits[d] = c

DigitValue(c) == (CHOOSE d \in 1 .. Len(Digits) : Digits[d] = c) - 1

RECURSIVE DecimalValue(_)
DecimalValue(s) ==
    IF s = <<>> THEN 0
    ELSE 10 * DecimalValue(SubSeq(s, 1, Len(s) - 1)) + DigitValue(s[Len(s)])

\* parse(raw_string) -> value | fails(TypeError)
TypeParse(t, v) ==
    IF ~IsStr(v) THEN [ok |-> FALSE, val |-> NoneV]
    ELSE IF t = "str" THEN [ok |-> TRUE, val |-> v]
    ELSE IF t = "int" /\ v.s # <<>> /\ \A k \in 1 .. Len(v.s) : IsDigit(v.s[k])
         THEN [ok |-> TRUE, val |-> IntV(DecimalValue(v.s))]
    ELSE [ok |-> FALSE, val |-> NoneV]

\* validate(value) -> bool
TypeIsValid(t, v) == v.tag = t

\* ---------------------------------------------------------------- callables
\* Command paths, as characters: a one-word path and a dotted one.
Paths == {<<"a">>, <<"b", ".", "c">>}

\* Callables addons offer for registration, by name.
Funcs == {"two", "var", "badparam", "badret"}

\* The callables among them that are registered and called.
Callables == {"two", "var"}

\* inspect.signature of each callable: parameter annotations, whether the last
\* parameter is *args, the return annotation, and whether it is `async def`.
FuncDef(f) ==
    CASE f = "two" ->
           [params |-> <<"int", "str">>, varpos |-> FALSE, ret |-> "_empty", asyncf |-> FALSE]
      [] f = "var" ->
           [params |-> <<"int", "int">>, varpos |-> TRUE, ret |-> "str", asyncf |-> TRUE]
      [] f = "badparam" ->
           [params |-> <<"str", "dict">>, varpos |-> FALSE, ret |-> "_empty", asyncf |-> FALSE]
      [] f = "badret" ->
           [params |-> <<"str">>, varpos |-> FALSE, ret |-> "dict", asyncf |-> FALSE]

\* verify_arg_signature with the bug of accepting any number of arguments
verify_arg_signature_lax(f, args) == TRUE

\* verify_arg_signature: sig.bind(*args) succeeds iff every declared
\* parameter gets an argument and no argument is left over.
verify_arg_signature(f, args) ==
    LET n == Len(FuncDef(f).params) IN
    IF FuncDef(f).varpos THEN Len(args) >= n - 1 ELSE Len(args) = n

\* typename(t): "" when it returns, else the CommandError it raises
typename(t) ==
    IF t = "_empty" THEN [err |-> "CommandError: missing type annotation", display |-> ""]
    ELSE IF t \notin CommandTypes THEN [err |-> "CommandError: unsupported type", display |-> ""]
    ELSE [err |-> "", display |-> Display(t)]

\* ------------------------------------------------------------------ Command
\* Command.paramnames: the display names, the last one starred when variadic
paramnames(cmd) ==
    LET n == Len(cmd.paramtypes)
        bad == {k \in 1 .. n : typename(cmd.paramtypes[k]).err # ""}
    IN IF bad # {}
       THEN [err |-> typename(cmd.paramtypes[SetMin(bad)]).err, names |-> <<>>]
       ELSE [err |-> "",
             names |-> [k \in 1 .. n |->
                          IF cmd.has_positional /\ k = n
                          THEN <<"*", typename(cmd.paramtypes[k]).display>>
                          ELSE <<typename(cmd.paramtypes[k]).display>>]]

\* Command.retname
retname(cmd) ==
    IF cmd.returntype # "None" THEN typename(cmd.returntype)
    ELSE [err |-> "", display |-> ""]

\* Command.signature_help: path, parameter names, " -> " and the return name
signature_help(cmd) ==
    LET pn == paramnames(cmd)
        rn == retname(cmd)
    IN IF pn.err # "" THEN [err |-> pn.err, text |-> <<>>]
       ELSE IF rn.err # "" THEN [err |-> rn.err, text |-> <<>>]
       ELSE [err |-> "",
             text |-> <<cmd.path, pn.names>> \o
                      (IF rn.display # "" THEN <<" -> ", rn.display>> ELSE <<>>)]

\* Command.__init__: the descriptor, and the CommandError it raises if any
Command(path, f) ==
    LET cmd == [path |-> path,
                func |-> f,
                asyncf |-> FuncDef(f).asyncf,
                has_positional |-> FuncDef(f).varpos,
                paramtypes |-> FuncDef(f).params,
                returntype |-> IF FuncDef(f).ret = "_empty" THEN "None" ELSE FuncDef(f).ret]
    IN [err |-> signature_help(cmd).err, cmd |-> cmd]

\* len(path.split("."))
SplitLen(path) == 1 + Cardinality({k \in 1 .. Len(path) : path[k] = "."})

\* CommandManager.add with the bug of storing the command before validating it
AddOp_unchecked(cmds, onewords, path, f) ==
    [err |-> Command(path, f).err,
     commands |-> SetKey(cmds, path, Command(path, f).cmd),
     oneword_commands |-> IF SplitLen(path) = 1 THEN Append(onewords, path) ELSE onewords]

\* CommandManager.add with the bug of keeping an existing registration
AddOp_keepfirst(cmds, onewords, path, f) ==
    IF Command(path, f).err # ""
    THEN [err |-> Command(path, f).err, commands |-> cmds, oneword_commands |-> onewords]
    ELSE [err |-> "",
          commands |-> IF path \in DOMAIN cmds THEN cmds
                       ELSE SetKey(cmds, path, Command(path, f).cmd),
          oneword_commands |-> IF SplitLen(path) = 1 THEN Append(onewords, path) ELSE onewords]

\* CommandManager.add: the registry after the call, and the error raised if any
AddOp(cmds, onewords, path, f) ==
    LET c == Command(path, f) IN
    IF c.err # ""
    THEN [err |-> c.err, commands |-> cmds, oneword_commands |-> onewords]
    ELSE [err |-> "",
          commands |-> SetKey(cmds, path, c.cmd),
          oneword_commands |-> IF SplitLen(path) = 1 THEN Append(onewords, path) ELSE onewords]

\* parsearg(manager, spec, argtype): string to value, TypeError becomes CommandError
parsearg(spec, argtype) ==
    IF argtype \notin CommandTypes
    THEN [err |-> "CommandError: Unsupported argument type", val |-> NoneV, call |-> "none"]
    ELSE IF TypeParse(argtype, spec).ok
    THEN [err |-> "", val |-> TypeParse(argtype, spec).val, call |-> "parse"]
    ELSE [err |-> "CommandError", val |-> NoneV, call |-> "parse"]

\* the loop body of prepare_args with the bug of coercing every argument
PrepareOne_reparse(paramtype, arg) == parsearg(arg, paramtype)

\* One turn of the loop of Command.prepare_args: a non-string argument is
\* validated with is_valid and kept, a string is handed to parsearg.
PrepareOne(paramtype, arg) ==
    IF ~IsStr(arg)
    THEN IF paramtype \notin CommandTypes
         THEN [err |-> "AttributeError", val |-> NoneV, call |-> "none"]
         ELSE IF TypeIsValid(paramtype, arg)
         THEN [err |-> "", val |-> arg, call |-> "is_valid"]
         ELSE [err |-> "CommandError: unexpected data", val |-> NoneV, call |-> "is_valid"]
    ELSE parsearg(arg, paramtype)

\* a[lo:] and a[:hi] of Python, clamped to the list
SliceFrom(a, lo) == SubSeq(a, (IF lo < Len(a) THEN lo ELSE Len(a)) + 1, Len(a))

SliceTo(a, hi) == SubSeq(a, 1, IF hi < Len(a) THEN hi ELSE Len(a))

\* prepare_args with the bug of coercing the variadic remainder too
PrepareArgs_coerceall(cmd, args) ==
    IF ~verify_arg_signature(cmd.func, args)
    THEN [err |-> "CommandError: command argument mismatch", pargs |-> <<>>, calls |-> <<>>]
    ELSE
    LET n == Len(cmd.paramtypes)
        one == [k \in 1 .. Len(args) |->
                  PrepareOne(cmd.paramtypes[IF k < n THEN k ELSE n], args[k])]
        bad == {k \in 1 .. Len(args) : one[k].err # ""}
        done == IF bad = {} THEN Len(args) ELSE SetMin(bad)
    IN [err |-> IF bad = {} THEN "" ELSE one[SetMin(bad)].err,
        pargs |-> IF bad = {} THEN [k \in 1 .. Len(args) |-> one[k].val] ELSE <<>>,
        calls |-> [k \in 1 .. done |-> one[k].call]]

\* Command.prepare_args: the error raised if any, the list returned, and the
\* type-system call made for each fixed position that was reached.
PrepareArgs(cmd, args) ==
    IF ~verify_arg_signature(cmd.func, args)
    THEN [err |-> "CommandError: command argument mismatch", pargs |-> <<>>, calls |-> <<>>]
    ELSE
    LET n == Len(cmd.paramtypes)
        remainder == IF cmd.has_positional THEN SliceFrom(args, n - 1) ELSE <<>>
        fixed == IF cmd.has_positional THEN SliceTo(args, n - 1) ELSE args
        z == IF Len(fixed) < n THEN Len(fixed) ELSE n
        one == [k \in 1 .. z |-> PrepareOne(cmd.paramtypes[k], fixed[k])]
        bad == {k \in 1 .. z : one[k].err # ""}
        done == IF bad = {} THEN z ELSE SetMin(bad)
    IN [err |-> IF bad = {} THEN "" ELSE one[SetMin(bad)].err,
        pargs |-> IF bad = {} THEN [k \in 1 .. z |-> one[k].val] \o remainder ELSE <<>>,
        calls |-> [k \in 1 .. done |-> one[k].call]]

\* Calling the registered callable: the wrapper made by @command checks the
\* arguments against the signature, then runs the body, which hands back ret
\* (a coroutine object when the callable is `async def`).
Invoke(cmd, args, ret) ==
    IF ~verify_arg_signature(cmd.func, args)
    THEN [err |-> "CommandError: command argument mismatch", value |-> NoneV, invoked |-> <<>>]
    ELSE [err |-> "", value |-> IF cmd.asyncf THEN CoroV ELSE ret, invoked |-> <<cmd.func>>]

\* The check of the returned value shared by Command.call and async_call:
\* CommandTypes.get(None) finds no entry, and `.is_valid` on it raises.
CheckReturn(cmd, ret) ==
    IF ret = NoneV /\ cmd.returntype = "None" THEN [err |-> "", value |-> NoneV]
    ELSE IF cmd.returntype \notin CommandTypes THEN [err |-> "AttributeError", value |-> NoneV]
    ELSE IF ~TypeIsValid(cmd.returntype, ret)
    THEN [err |-> "CommandError: returned unexpected data", value |-> NoneV]
    ELSE [err |-> "", value |-> ret]

\* Command.call
CommandCall(cmd, args, ret) ==
    LET p == PrepareArgs(cmd, args)
        i == Invoke(cmd, p.pargs, ret)
    IN IF p.err # ""
       THEN [err |-> p.err, value |-> NoneV, invoked |-> <<>>, prep |-> p.err,
             pargs |-> <<>>, calls |-> p.calls]
       ELSE IF i.err # ""
       THEN [err |-> i.err, value |-> NoneV, invoked |-> <<>>, prep |-> p.err,
             pargs |-> p.pargs, calls |-> p.calls]
       ELSE [err |-> CheckReturn(cmd, i.value).err, value |-> CheckReturn(cmd, i.value).value,
             invoked |-> i.invoked, prep |-> p.err, pargs |-> p.pargs, calls |-> p.calls]

\* Command.async_call, run to completion: awaiting what a plain callable
\* returned raises TypeError; awaiting the coroutine yields ret.
CommandAsyncCall(cmd, args, ret) ==
    LET p == PrepareArgs(cmd, args)
        i == Invoke(cmd, p.pargs, ret)
    IN IF p.err # ""
       THEN [err |-> p.err, value |-> NoneV, invoked |-> <<>>, prep |-> p.err,
             pargs |-> <<>>, calls |-> p.calls]
       ELSE IF i.err # ""
       THEN [err |-> i.err, value |-> NoneV, invoked |-> <<>>, prep |-> p.err,
             pargs |-> p.pargs, calls |-> p.calls]
       ELSE IF i.value # CoroV
       THEN [err |-> "TypeError", value |-> NoneV, invoked |-> i.invoked, prep |-> p.err,
             pargs |-> p.pargs, calls |-> p.calls]
       ELSE [err |-> CheckReturn(cmd, ret).err, value |-> CheckReturn(cmd, ret).value,
             invoked |-> i.invoked, prep |-> p.err, pargs |-> p.pargs, calls |-> p.calls]

\* ------------------------------------------------------------ CommandManager
\* What an addon exposes: (command_path, callable) pairs in dir() order.
AddonEntries == [path : Paths, func : Funcs]

Addons == UNION {[1 .. m -> AddonEntries] : m \in 1 .. MaxAddon}

\* The last operation on the registry: its inputs and everything it produced.
NoRes ==
    [op |-> "init", path |-> <<>>, func |-> "", args |-> <<>>, addon |-> <<>>,
     ret |-> NoneV, outcome |-> "ok", value |-> NoneV, prep |-> "", pargs |-> <<>>,
     calls |-> <<>>, invoked |-> <<>>, found |-> <<>>, warns |-> <<>>]

Outcome(err) == IF err = "" THEN "ok" ELSE err

\* A callable every annotation of which has an entry in the type registry.
Registrable(f) ==
    /\ \A k \in 1 .. Len(FuncDef(f).params) : FuncDef(f).params[k] \in CommandTypes
    /\ FuncDef(f).ret \in CommandTypes \cup {"_empty"}

\* CommandManager.__init__
InitCmd ==
    /\ commands = <<>>
    /\ oneword_commands = <<>>
    /\ lastreg = <<>>
    /\ cmdRes = NoRes

\* CommandManager.add(path, func)
add(path, f) ==
    /\ SplitLen(path) = 1 => Len(oneword_commands) < MaxOneword
    /\ LET r == AddOp(commands, oneword_commands, path, f) IN
        /\ commands' = r.commands
        /\ oneword_commands' = r.oneword_commands
        /\ cmdRes' = [NoRes EXCEPT !.op = "add", !.path = path, !.func = f,
                                   !.outcome = Outcome(r.err)]
    /\ lastreg' = IF Registrable(f) THEN SetKey(lastreg, path, f) ELSE lastreg
    /\ UNCHANGED asyncVars
    /\ UNCHANGED inputVars
    /\ UNCHANGED uiVars

\* The loop of collect_commands over the addon's commands: each goes through
\* add, a CommandError is caught and logged as a warning, the loop goes on.
RECURSIVE CollectOp(_, _, _, _)
CollectOp(cmds, onewords, warns, addon) ==
    IF addon = <<>>
    THEN [commands |-> cmds, oneword_commands |-> onewords, warns |-> warns]
    ELSE LET o == Head(addon)
             r == AddOp(cmds, onewords, o.path, o.func)
         IN CollectOp(r.commands, r.oneword_commands,
                      IF r.err # "" THEN Append(warns, o.path) ELSE warns,
                      Tail(addon))

\* the callable most recently registered per path, after an addon was collected
RECURSIVE LastRegAfter(_, _)
LastRegAfter(reg, addon) ==
    IF addon = <<>> THEN reg
    ELSE LastRegAfter(IF Registrable(Head(addon).func)
                      THEN SetKey(reg, Head(addon).path, Head(addon).func) ELSE reg,
                      Tail(addon))

OnewordCount(addon) == Cardinality({k \in 1 .. Len(addon) : SplitLen(addon[k].path) = 1})

\* CommandManager.collect_commands(addon)
collect_commands(addon) ==
    /\ Len(oneword_commands) + OnewordCount(addon) <= MaxOneword
    /\ LET r == CollectOp(commands, oneword_commands, <<>>, addon) IN
        /\ commands' = r.commands
        /\ oneword_commands' = r.oneword_commands
        /\ cmdRes' = [NoRes EXCEPT !.op = "collect_commands", !.addon = addon,
                                   !.warns = r.warns]
    /\ lastreg' = LastRegAfter(lastreg, addon)
    /\ UNCHANGED asyncVars
    /\ UNCHANGED inputVars
    /\ UNCHANGED uiVars

\* CommandManager.get_command_by_path
GetCommandByPath(path) ==
    IF path \notin DOMAIN commands
    THEN [err |-> "CommandError: Unknown command", found |-> <<>>]
    ELSE [err |-> "", found |-> <<commands[path]>>]

get_command_by_path(path) ==
    /\ LET g == GetCommandByPath(path) IN
        cmdRes' = [NoRes EXCEPT !.op = "get_command_by_path", !.path = path,
                                !.outcome = Outcome(g.err), !.found = g.found]
    /\ UNCHANGED <<commands, oneword_commands, lastreg>>
    /\ UNCHANGED asyncVars
    /\ UNCHANGED inputVars
    /\ UNCHANGED uiVars

\* CommandManager.call(path, *args): the callable is called with native
\* arguments, its result is handed back as is.
call(path, args) ==
    /\ LET g == GetCommandByPath(path) IN
        IF g.err # ""
        THEN cmdRes' = [NoRes EXCEPT !.op = "call", !.path = path, !.args = args,
                                     !.outcome = Outcome(g.err)]
        ELSE \E ret \in RetPool :
               LET i == Invoke(g.found[1], args, ret) IN
               cmdRes' = [NoRes EXCEPT !.op = "call", !.path = path, !.args = args,
                                       !.ret = IF i.err = "" THEN ret ELSE NoneV,
                                       !.outcome = Outcome(i.err), !.value = i.value,
                                       !.pargs = IF i.err = "" THEN args ELSE <<>>,
                                       !.invoked = i.invoked]
    /\ UNCHANGED <<commands, oneword_commands, lastreg>>
    /\ UNCHANGED asyncVars
    /\ UNCHANGED inputVars
    /\ UNCHANGED uiVars

\* CommandManager.call_strings(path, args)
call_strings(path, args) ==
    /\ LET g == GetCommandByPath(path) IN
        IF g.err # ""
        THEN cmdRes' = [NoRes EXCEPT !.op = "call_strings", !.path = path, !.args = args,
                                     !.outcome = Outcome(g.err)]
        ELSE \E ret \in RetPool :
               LET c == CommandCall(g.found[1], args, ret) IN
               cmdRes' = [NoRes EXCEPT !.op = "call_strings", !.path = path, !.args = args,
                                       !.ret = IF c.invoked # <<>> THEN ret ELSE NoneV,
                                       !.outcome = Outcome(c.err), !.value = c.value,
                                       !.prep = Outcome(c.prep),
                                       !.pargs = c.pargs, !.calls = c.calls,
                                       !.invoked = c.invoked]
    /\ UNCHANGED <<commands, oneword_commands, lastreg>>
    /\ UNCHANGED asyncVars
    /\ UNCHANGED inputVars
    /\ UNCHANGED uiVars

\* Command.prepare_args(args) on the command registered under path
prepare_args(path, args) ==
    /\ path \in DOMAIN commands
    /\ LET p == PrepareArgs(commands[path], args) IN
        cmdRes' = [NoRes EXCEPT !.op = "prepare_args", !.path = path, !.args = args,
                                !.outcome = Outcome(p.err), !.prep = Outcome(p.err),
                                !.pargs = p.pargs, !.calls = p.calls]
    /\ UNCHANGED <<commands, oneword_commands, lastreg>>
    /\ UNCHANGED asyncVars
    /\ UNCHANGED inputVars
    /\ UNCHANGED uiVars

\* Command.async_call(args) on the command registered under path
async_call(path, args) ==
    /\ path \in DOMAIN commands
    /\ \E ret \in RetPool :
         LET c == CommandAsyncCall(commands[path], args, ret) IN
         cmdRes' = [NoRes EXCEPT !.op = "async_call", !.path = path, !.args = args,
                                 !.ret = IF c.invoked # <<>> THEN ret ELSE NoneV,
                                 !.outcome = Outcome(c.err), !.value = c.value,
                                 !.prep = Outcome(c.prep),
                                 !.pargs = c.pargs, !.calls = c.calls,
                                 !.invoked = c.invoked]
    /\ UNCHANGED <<commands, oneword_commands, lastreg>>
    /\ UNCHANGED asyncVars
    /\ UNCHANGED inputVars
    /\ UNCHANGED uiVars

\* ------------------------------------------------------------ bounds (lexer)
\* Longest command line handed to the lexer.
MaxLex == 3

\* Characters of those command lines: a word character, the dot of dotted
\* paths, whitespace, a quote, and two of the delimiters.
LexChars == {"a", ".", " ", "'", "(", "|"}

LexTexts == UNION {[1 .. m -> LexChars] : m \in 0 .. MaxLex}

\* ------------------------------------------- language/lexer.py: the rules
\* \w
WordChars == {"a", "b", "c", "x", "0", "1", "2", "3", "4", "5", "6", "7", "8", "9", "_"}

\* \s
SpaceChars == {" "}

\* the characters with a token of their own
Delimiters == {"(", ")", "[", "]", "|"}

QuoteChars == {"'", "\""}

\* Length of the longest run of characters from position i that are
\* (inside = TRUE) or are not (inside = FALSE) in the class S.
Run(s, i, S, inside) ==
    LET stops == {j \in i .. Len(s) : (s[j] \in S) # inside} IN
    IF stops = {} THEN Len(s) - i + 1 ELSE SetMin(stops) - i

\* Position after the groups (\.\w+)* matched greedily from position i.
RECURSIVE DottedEnd(_, _)
DottedEnd(s, i) ==
    IF i <= Len(s) /\ s[i] = "." /\ Run(s, i + 1, WordChars, TRUE) > 0
    THEN DottedEnd(s, i + 1 + Run(s, i + 1, WordChars, TRUE))
    ELSE i

\* t_COMMAND, \w+(\.\w+)+ : length of its match at position i, 0 for none
t_COMMAND(s, i) ==
    LET w == Run(s, i, WordChars, TRUE)
        e == DottedEnd(s, i + w)
    IN IF w > 0 /\ e > i + w THEN e - i ELSE 0

\* t_QUOTED_STR, q+[^q]*q+ for either quote q: opening quotes, anything but
\* the quote, closing quotes; with no closing quote the opening run of two
\* or more quotes matches by itself.
t_QUOTED_STR(s, i) ==
    IF s[i] \notin QuoteChars THEN 0
    ELSE LET q == {s[i]}
             k == Run(s, i, q, TRUE)
             m == Run(s, i + k, q, FALSE)
             c == Run(s, i + k + m, q, TRUE)
         IN IF c >= 1 THEN k + m + c
            ELSE IF k >= 2 THEN k
            ELSE 0

\* t_PLAIN_STR, [^\|\[\]\(\)\s]+ (the length of its match)
t_PLAIN_STR(s, i) == Run(s, i, Delimiters \cup SpaceChars, FALSE)

\* self.oneword_commands.get(t.value, "PLAIN_STR")
PlainType(value, onewords) ==
    IF \E k \in 1 .. Len(onewords) : onewords[k] = value THEN "COMMAND" ELSE "PLAIN_STR"

\* t_LPAREN, t_RPAREN, t_LBRACE, t_RBRACE, t_PIPE
DelimiterType(c) ==
    CASE c = "(" -> "LPAREN"
      [] c = ")" -> "RPAREN"
      [] c = "[" -> "LBRACE"
      [] c = "]" -> "RBRACE"
      [] c = "|" -> "PIPE"

Tok(type, value) == [type |-> type, value |-> value]

\* The tokens of s from position i on, for a lexer built over the one-word
\* commands `onewords` and switched to `state`. The rules are tried in the
\* order the lexer builds them: the rules of the state itself, then the function
\* rules of INITIAL as defined, then its string rules.
RECURSIVE Lex(_, _, _, _)
Lex(s, i, onewords, state) ==
    IF i > Len(s) THEN <<>>
    ELSE IF state = "interactive" /\ s[i] \in SpaceChars
    THEN <<Tok("WHITESPACE", SubSeq(s, i, i + Run(s, i, SpaceChars, TRUE) - 1))>>
         \o Lex(s, i + Run(s, i, SpaceChars, TRUE), onewords, state)
    ELSE IF t_COMMAND(s, i) > 0
    THEN <<Tok("COMMAND", SubSeq(s, i, i + t_COMMAND(s, i) - 1))>>
         \o Lex(s, i + t_COMMAND(s, i), onewords, state)
    ELSE IF t_QUOTED_STR(s, i) > 0
    THEN <<Tok("QUOTED_STR", SubSeq(s, i, i + t_QUOTED_STR(s, i) - 1))>>
         \o Lex(s, i + t_QUOTED_STR(s, i), onewords, state)
    ELSE IF t_PLAIN_STR(s, i) > 0
    THEN LET v == SubSeq(s, i, i + t_PLAIN_STR(s, i) - 1) IN
         <<Tok(PlainType(v, onewords), v)>> \o Lex(s, i + t_PLAIN_STR(s, i), onewords, state)
    ELSE IF s[i] \in SpaceChars
    THEN Lex(s, i + Run(s, i, SpaceChars, TRUE), onewords, state)
    ELSE <<Tok(DelimiterType(s[i]), <<s[i]>>)>> \o Lex(s, i + 1, onewords, state)

\* create_lexer(cmdstr, oneword_commands), read to the end: list(lexer)
create_lexer(s, onewords) == Lex(s, 1, onewords, "INITIAL")

\* The states of CommandLanguageLexer, which lexer.begin accepts.
LexStates == {"INITIAL", "interactive"}

\* What a caller passes as the state of get_tokens: a state name, or a list.
StateName(name) == [isname |-> TRUE, name |-> name]

StateList == [isname |-> FALSE, name |-> ""]

\* get_tokens(cmdstr, state): the lexer is created over an empty list of
\* one-word commands, switched to the state (a list cannot be looked up
\* among the states, an unknown name is rejected), and read to the end.
get_tokens(s, state) ==
    IF ~state.isname THEN [err |-> "TypeError", tokens |-> <<>>]
    ELSE IF state.name \notin LexStates THEN [err |-> "ValueError", tokens |-> <<>>]
    ELSE [err |-> "", tokens |-> Lex(s, 1, <<>>, state.name)]

\* InteractiveLexer(cmdstr, state).tokens
InteractiveLexer(s, state) == get_tokens(s, state)

\* The last operation on the language layer: what it was given and produced.
NoLang ==
    [op |-> "init", outcome |-> "ok", tokens |-> <<>>, typer |-> <<>>,
     wsmap |-> <<>>, haswsmap |-> FALSE, syntax |-> FALSE, reduced |-> {},
     name |-> <<>>, markup_attr |-> "", params |-> <<>>, arguments |-> <<>>]

\* list(create_lexer(cmdstr, self.oneword_commands)): strict mode, as execute
\* and async_execute build their lexer
lex_strict ==
    /\ langRes' = [NoLang EXCEPT !.op = "create_lexer",
                                 !.tokens = create_lexer(cmdstr, oneword_commands)]
    /\ UNCHANGED cmdstr
    /\ UNCHANGED asyncVars
    /\ UNCHANGED cmdVars
    /\ UNCHANGED bufVars

\* get_tokens(cmdstr): interactive mode
lex_interactive ==
    /\ LET r == get_tokens(cmdstr, StateName("interactive")) IN
        langRes' = [NoLang EXCEPT !.op = "get_tokens", !.outcome = Outcome(r.err),
                                 !.tokens = r.tokens]
    /\ UNCHANGED cmdstr
    /\ UNCHANGED asyncVars
    /\ UNCHANGED cmdVars
    /\ UNCHANGED bufVars

\* ------------------------------------------------ CommandBuffer.__init__
\* self.completion = None
NoCompletion == [active |-> FALSE, start |-> <<>>, options |-> <<>>, offset |-> 0, parse |-> <<>>]

\* The last operation on the buffer: what it was given and how it ended.
NoBuf ==
    [op |-> "init", outcome |-> "ok", key |-> "", spans |-> <<>>, nxt |-> <<>>,
     deleted |-> <<>>, cycles |-> 0, bracket |-> "none"]

\* CommandBuffer(master, start)
InitBufWith(m, start) ==
    /\ master = m
    /\ text = start
    /\ autoclosing = TRUE
    /\ cursor = Len(start)
    /\ completion = NoCompletion
    /\ bufRes = NoBuf

\* No command line under way, and an empty buffer over the manager.
InitUi == cmdstr = <<>> /\ langRes = NoLang /\ InitBufWith("CommandManager", <<>>)

\* ------------------------------------- InteractivePartialParser: the values
\* The Python values the semantic actions of the grammar build. A str is the
\* sequence of its pieces (the characters of a token, or whole words for
\* words the parser supplies); a pair (style, text) is a "tuple".
PyNone == [k |-> "None"]

PyStr(s) == [k |-> "str", text |-> s]

PyEmpty == [k |-> "()"]

PyTuple(style, t) == [k |-> "tuple", style |-> style, text |-> t]

PyList(items) == [k |-> "list", items |-> items]

\* the pair (command_text, params) check_command returns
PyCorps(command, params) == [k |-> "corps", command |-> command, params |-> params]

\* a semantic action that returns with p[0] = v, and one that raises e
Ret(v) == [err |-> "", val |-> v]

Raise(e) == [err |-> e, val |-> PyNone]

\* bool(v)
Truthy(v) ==
    CASE v.k = "None" -> FALSE
      [] v.k = "str" -> v.text # <<>>
      [] v.k = "()" -> FALSE
      [] v.k = "list" -> v.items # <<>>
      [] OTHER -> TRUE

\* str.isspace()
IsSpace(s) == s # <<>> /\ \A k \in 1 .. Len(s) : s[k] \in SpaceChars

\* v[1]
Index1(v) ==
    CASE v.k = "tuple" -> Ret(PyStr(v.text))
      [] v.k = "()" -> Raise("IndexError")
      [] v.k = "list" -> IF Len(v.items) >= 2 THEN Ret(v.items[2]) ELSE Raise("IndexError")
      [] v.k = "str" -> IF Len(v.text) >= 2 THEN Ret(PyStr(<<v.text[2]>>)) ELSE Raise("IndexError")
      [] v.k = "corps" -> Ret(PyList(v.params))
      [] OTHER -> Raise("TypeError")

\* the elements *v unpacks to, and len(v), for the list and tuple values the
\* grammar puts at the unpacked positions
Unpack(v) ==
    CASE v.k = "list" -> v.items
      [] v.k = "()" -> <<>>
      [] v.k = "tuple" -> <<PyStr(<<v.style>>), PyStr(v.text)>>

\* " ".join(names)
RECURSIVE SpaceJoin(_)
SpaceJoin(names) ==
    IF names = <<>> THEN <<>>
    ELSE IF Len(names) = 1 THEN <<names[1]>>
    ELSE <<names[1], " ">> \o SpaceJoin(Tail(names))

\* ------------------------------------ InteractivePartialParser: the actions
\* check_command(command)
CheckCommand(cmds, command) ==
    IF command \in DOMAIN cmds
    THEN [command_text |-> PyTuple("commander_command", command),
          params |-> cmds[command].paramtypes]
    ELSE [command_text |-> PyTuple("commander_invalid", command), params |-> <<>>]

\* get_remhelp(rem_params): remt is None for a type without an entry
get_remhelp(rem_params) ==
    IF \E k \in 1 .. Len(rem_params) : rem_params[k] \notin CommandTypes
    THEN [err |-> "AttributeError", names |-> <<>>]
    ELSE [err |-> "", names |-> [k \in 1 .. Len(rem_params) |-> Display(rem_params[k])]]

\* In every p_ operator below p is the right side of the production, p[1]
\* the value of its first symbol; len(p) of the code is Len(p) + 1.

\* p_command_call: sets self.text and leaves p[0] alone; the value kept here
\* for command_line is that self.text, which parse() returns.
p_command_call(p) ==
    IF Truthy(p[1]) THEN Ret(p[1]) ELSE Ret(PyList(<<PyTuple("text", <<>>)>>))

\* the two hint spans built from the remaining help
RemText(remhelp) ==
    <<PyTuple("commander_hint", <<" ">>), PyTuple("commander_hint", SpaceJoin(remhelp))>>

p_command_call_no_parentheses(p) ==
    LET command == p[1].command
        params == p[1].params
        st == <<p[2]>> \o Unpack(p[3]) \o <<p[4]>>
        stuff == <<command>> \o SelectSeq(st, Truthy)
        last == Index1(stuff[Len(stuff)])
    IN IF last.err # "" THEN Raise(last.err)
       ELSE IF last.val.k # "str" THEN Raise("AttributeError")
       ELSE LET args == IF IsSpace(last.val.text)
                        THEN Append(p[3].items, PyTuple("text", <<>>))
                        ELSE p[3].items
                help == get_remhelp(SubSeq(params, Len(args) + 1, Len(params)))
            IN IF help.err # "" THEN Raise(help.err)
               ELSE Ret(PyList(stuff \o RemText(help.names)))

p_arglist(p) ==
    LET args == SelectSeq(<<p[1]>> \o Unpack(p[2]) \o <<p[3]>>, Truthy) IN
    IF args = <<>> THEN Raise("IndexError")
    ELSE LET last == Index1(args[Len(args)]) IN
         IF last.err # "" THEN Raise(last.err)
         ELSE IF last.val.k # "str" THEN Raise("AttributeError")
         ELSE IF IsSpace(last.val.text)
              THEN Ret(PyList(Append(args, PyTuple("text", <<>>))))
              ELSE Ret(PyList(args))

p_argument_list(p) ==
    IF Len(p) = 1
    THEN Ret(IF p[1].k = "None" THEN PyList(<<>>) ELSE PyList(<<p[1]>>))
    ELSE LET ws == Index1(p[2])
             arg == Index1(p[3])
         IN IF ws.err # "" THEN Raise(ws.err)
            ELSE IF arg.err # "" THEN Raise(arg.err)
            ELSE IF ws.val.k # "str" \/ arg.val.k # "str" THEN Raise("TypeError")
            ELSE Ret(PyList(Append(p[1].items,
                                   PyTuple("text", ws.val.text \o arg.val.text))))

p_argument(p) ==
    IF p[1].k = "list" THEN Ret(p[1]) ELSE Ret(PyTuple("text", p[1].text))

\* Both four-symbol productions make len(p) == 5, so the last branch of the
\* code (self.completed = True) is never taken.
p_command_call_with_parentheses(p) ==
    LET command == p[1].command
        params == p[1].params
    IN IF Len(p) = 6
       THEN Ret(PyList(SelectSeq(<<command, p[2], p[3]>> \o Unpack(p[4]) \o <<p[5], p[6]>>,
                                 Truthy)))
       ELSE LET help == get_remhelp(SubSeq(params, Len(Unpack(p[4])) + 1, Len(params))) IN
            IF help.err # "" THEN Raise(help.err)
            ELSE Ret(PyList(SelectSeq(
                     <<command, p[2], p[3]>> \o Unpack(p[4])
                         \o (IF help.names # <<>> THEN RemText(help.names) ELSE <<>>)
                         \o <<PyTuple("text", <<")">>)>>,
                     Truthy)))

p_corps(cmds, p) ==
    LET c == CheckCommand(cmds, p[1].text) IN Ret(PyCorps(c.command_text, c.params))

p_array(p) ==
    IF Len(p) = 3 THEN Ret(PyList(Unpack(p[1]) \o Unpack(p[2]) \o Unpack(p[3])))
    ELSE IF Len(p) = 2 THEN Ret(PyList(Unpack(p[1]) \o Unpack(p[2])))
    ELSE Ret(PyList(Unpack(p[1])))

\* The attributes __init__ gives the parser, and those build() adds.
ParserAttributes == {"commands", "completed", "text", "parser"}

\* p_lbrace, for all four brackets: it reads self.autoclosing first
p_lbrace(p) ==
    IF "autoclosing" \notin ParserAttributes THEN Raise("AttributeError")
    ELSE Ret(PyList(<<PyTuple("text", p[1].text)>>))

p_eorws(p) ==
    IF p[1].k = "None" THEN Ret(PyEmpty) ELSE Ret(PyTuple("text", p[1].text))

p_empty(p) == Ret(PyNone)

\* p_error(p): p is None at the end of the input, and p.value is read
p_error(atEnd) == IF atEnd THEN "AttributeError" ELSE "CommandError"

\* ----------------------------------- InteractivePartialParser: the automaton
\* The LALR(1) automaton yacc builds from the productions of the docstrings,
\* numbered in the order of the p_ functions in the file (the start symbol
\* is the left side of the first). A shift/reduce conflict is settled for
\* the shift (no precedence is declared), a reduce/reduce conflict for the
\* production that comes first in the file. No production has PIPE in it.
\* CommandLanguageLexer.tokens and the end of the input.
Terminals ==
    <<"WHITESPACE", "COMMAND", "PLAIN_STR", "LPAREN", "RPAREN", "LBRACE", "RBRACE", "PIPE", "QUOTED_STR", "$end">>

\* Left side and length of the right side of every production.
Productions ==
    <<
      [lhs |-> "command_line", len |-> 1],   \* 1: empty
      [lhs |-> "command_line", len |-> 1],   \* 2: argument_list
      [lhs |-> "command_line", len |-> 1],   \* 3: command_call_no_parentheses
      [lhs |-> "command_line", len |-> 1],   \* 4: command_call_with_parentheses
      [lhs |-> "command_call_no_parentheses", len |-> 4],   \* 5: corps eorws argument_list eorws
      [lhs |-> "arglist", len |-> 3],   \* 6: eorws argument_list eorws
      [lhs |-> "argument_list", len |-> 1],   \* 7: empty
      [lhs |-> "argument_list", len |-> 1],   \* 8: argument
      [lhs |-> "argument_list", len |-> 3],   \* 9: argument_list eorws argument
      [lhs |-> "argument", len |-> 1],   \* 10: PLAIN_STR
      [lhs |-> "argument", len |-> 1],   \* 11: QUOTED_STR
      [lhs |-> "argument", len |-> 1],   \* 12: COMMAND
      [lhs |-> "argument", len |-> 1],   \* 13: array
      [lhs |-> "argument", len |-> 1],   \* 14: command_call_with_parentheses
      [lhs |-> "command_call_with_parentheses", len |-> 6],   \* 15: corps eorws lparen arglist rparen eorws
      [lhs |-> "command_call_with_parentheses", len |-> 4],   \* 16: corps eorws lparen arglist
      [lhs |-> "command_call_with_parentheses", len |-> 4],   \* 17: corps eorws lparen eorws
      [lhs |-> "corps", len |-> 1],   \* 18: PLAIN_STR
      [lhs |-> "corps", len |-> 1],   \* 19: COMMAND
      [lhs |-> "array", len |-> 1],   \* 20: lbrace
      [lhs |-> "array", len |-> 2],   \* 21: lbrace argument_list
      [lhs |-> "array", len |-> 3],   \* 22: lbrace argument_list rbrace
      [lhs |-> "lbrace", len |-> 1],   \* 23: LBRACE
      [lhs |-> "rbrace", len |-> 1],   \* 24: RBRACE
      [lhs |-> "lparen", len |-> 1],   \* 25: LPAREN
      [lhs |-> "rparen", len |-> 1],   \* 26: RPAREN
      [lhs |-> "eorws", len |-> 1],   \* 27: empty
      [lhs |-> "eorws", len |-> 1],   \* 28: WHITESPACE
      [lhs |-> "empty", len |-> 0]   \* 29: <empty>
    >>

\* Per state and per terminal (in the order of Terminals): j > 0 shifts and
\* goes to state j, -r reduces by production r, 0 accepts, 99 is a syntax
\* error.
LRAction ==
    <<
      <<-29,   1,   3,  99,  99,   2,  99,  99,   4, -29>>,   \* state 0
      <<-12, -12, -12, -19, -12, -12, -12,  99, -12, -12>>,   \* state 1
      <<-23, -23, -23,  99, -23, -23, -23,  99, -23, -23>>,   \* state 2
      <<-10, -10, -10, -18, -10, -10, -10,  99, -10, -10>>,   \* state 3
      <<-11, -11, -11,  99, -11, -11, -11,  99, -11, -11>>,   \* state 4
      << -8,  -8,  -8,  99,  -8,  -8,  -8,  99,  -8,  -8>>,   \* state 5
      << 19, -29, -29,  99,  99, -29,  99,  99, -29,  -2>>,   \* state 6
      <<-13, -13, -13,  99, -13, -13, -13,  99, -13, -13>>,   \* state 7
      << 99,  99,  99,  99,  99,  99,  99,  99,  99,  -3>>,   \* state 8
      <<-14, -14, -14,  99,  99, -14,  99,  99, -14,  -4>>,   \* state 9
      << 99,  99,  99,  99,  99,  99,  99,  99,  99,   0>>,   \* state 10
      << 19, -29, -29, -29,  99, -29,  99,  99, -29, -29>>,   \* state 11
      << -7,  -7,  -7,  99,  99,  -7,  99,  99,  -7,  -1>>,   \* state 12
      <<-20,   1,   3,  99, -20,   2, -20,  99,   4, -20>>,   \* state 13
      << 19, -21, -21,  99, -21, -21,  18,  99, -21, -21>>,   \* state 14
      <<-14, -14, -14,  99, -14, -14, -14,  99, -14, -14>>,   \* state 15
      << 19,  99,  99, -29,  99,  99,  99,  99,  99,  99>>,   \* state 16
      << -7,  -7,  -7,  99,  -7,  -7,  -7,  99,  -7,  -7>>,   \* state 17
      <<-24, -24, -24,  99, -24, -24, -24,  99, -24, -24>>,   \* state 18
      <<-28, -28, -28, -28, -28, -28, -28,  99, -28, -28>>,   \* state 19
      <<-27, -27, -27, -27, -27, -27, -27,  99, -27, -27>>,   \* state 20
      << 99,   1,   3,  99,  99,   2,  99,  99,   4,  99>>,   \* state 21
      <<-22, -22, -22,  99, -22, -22, -22,  99, -22, -22>>,   \* state 22
      << -9,  -9,  -9,  99,  -9,  -9,  -9,  99,  -9,  -9>>,   \* state 23
      << 99,  99,  99,  25,  99,  99,  99,  99,  99,  99>>,   \* state 24
      <<-25, -25, -25,  99, -25, -25, -25,  99, -25, -25>>,   \* state 25
      << 19, -29, -29,  99, -29, -29, -29,  99, -29, -29>>,   \* state 26
      <<-16, -16, -16,  99,  30, -16, -16,  99, -16, -16>>,   \* state 27
      <<-17,   1,   3,  99, -17,   2, -17,  99,   4, -17>>,   \* state 28
      << 19, -29, -29,  99, -29, -29, -29,  99, -29, -29>>,   \* state 29
      <<-26, -26, -26,  99, -26, -26, -26,  99, -26, -26>>,   \* state 30
      << 19, -29, -29,  99, -29, -29, -29,  99, -29, -29>>,   \* state 31
      <<-15, -15, -15,  99, -15, -15, -15,  99, -15, -15>>,   \* state 32
      << -6,   1,   3,  99,  -6,   2,  -6,  99,   4,  -6>>,   \* state 33
      <<-29,   1,   3,  25,  99,   2,  99,  99,   4, -29>>,   \* state 34
      << 19, -29, -29,  99,  99, -29,  99,  99, -29, -29>>,   \* state 35
      << 99,   1,   3,  99,  99,   2,  99,  99,   4,  -5>>   \* state 36
    >>

\* <<state, nonterminal, state after the reduction>>
LRGoto ==
    {
      <<0, "argument", 5>>, <<0, "argument_list", 6>>, <<0, "array", 7>>,
      <<0, "command_call_no_parentheses", 8>>, <<0, "command_call_with_parentheses", 9>>, <<0, "command_line", 10>>,
      <<0, "corps", 11>>, <<0, "empty", 12>>, <<0, "lbrace", 13>>,
      <<6, "empty", 20>>, <<6, "eorws", 21>>, <<11, "empty", 20>>,
      <<11, "eorws", 34>>, <<13, "argument", 5>>, <<13, "argument_list", 14>>,
      <<13, "array", 7>>, <<13, "command_call_with_parentheses", 15>>, <<13, "corps", 16>>,
      <<13, "empty", 17>>, <<13, "lbrace", 13>>, <<14, "empty", 20>>,
      <<14, "eorws", 21>>, <<14, "rbrace", 22>>, <<16, "empty", 20>>,
      <<16, "eorws", 24>>, <<21, "argument", 23>>, <<21, "array", 7>>,
      <<21, "command_call_with_parentheses", 15>>, <<21, "corps", 16>>, <<21, "lbrace", 13>>,
      <<24, "lparen", 26>>, <<26, "arglist", 27>>, <<26, "empty", 20>>,
      <<26, "eorws", 28>>, <<27, "rparen", 31>>, <<28, "argument", 5>>,
      <<28, "argument_list", 29>>, <<28, "array", 7>>, <<28, "command_call_with_parentheses", 15>>,
      <<28, "corps", 16>>, <<28, "empty", 17>>, <<28, "lbrace", 13>>,
      <<29, "empty", 20>>, <<29, "eorws", 33>>, <<31, "empty", 20>>,
      <<31, "eorws", 32>>, <<33, "argument", 23>>, <<33, "array", 7>>,
      <<33, "command_call_with_parentheses", 15>>, <<33, "corps", 16>>, <<33, "lbrace", 13>>,
      <<34, "argument", 5>>, <<34, "argument_list", 35>>, <<34, "array", 7>>,
      <<34, "command_call_with_parentheses", 15>>, <<34, "corps", 16>>, <<34, "empty", 17>>,
      <<34, "lbrace", 13>>, <<34, "lparen", 26>>, <<35, "empty", 20>>,
      <<35, "eorws", 36>>, <<36, "argument", 23>>, <<36, "array", 7>>,
      <<36, "command_call_with_parentheses", 15>>, <<36, "corps", 16>>, <<36, "lbrace", 13>>
    }

Action(st, t) ==
    LRAction[st + 1][CHOOSE k \in 1 .. Len(Terminals) : Terminals[k] = t]

Goto(st, nt) == (CHOOSE e \in LRGoto : e[1] = st /\ e[2] = nt)[3]

\* the p_ function of production r, applied to the values of its right side
Reduce(cmds, r, p) ==
    CASE r \in 1 .. 4 -> p_command_call(p)
      [] r = 5 -> p_command_call_no_parentheses(p)
      [] r = 6 -> p_arglist(p)
      [] r \in 7 .. 9 -> p_argument_list(p)
      [] r \in 10 .. 14 -> p_argument(p)
      [] r \in 15 .. 17 -> p_command_call_with_parentheses(p)
      [] r \in 18 .. 19 -> p_corps(cmds, p)
      [] r \in 20 .. 22 -> p_array(p)
      [] r \in 23 .. 26 -> p_lbrace(p)
      [] r \in 27 .. 28 -> p_eorws(p)
      [] r = 29 -> p_empty(p)

\* The run of the generated parser from token i on, with its stack of states
\* and of values: err is the exception that ends it ("" when it accepts),
\* text is self.text, syntax tells that p_error was called, reduced holds
\* the productions it reduced by.
RECURSIVE LRParse(_, _, _, _, _, _)
LRParse(cmds, toks, i, states, vals, reduced) ==
    LET atEnd == i > Len(toks)
        la == IF atEnd THEN "$end" ELSE toks[i].type
        a == Action(states[Len(states)], la)
    IN IF a = 99
       THEN [err |-> p_error(atEnd), text |-> <<>>, syntax |-> TRUE, reduced |-> reduced]
       ELSE IF a = 0
       THEN [err |-> "", text |-> vals[Len(vals)].items, syntax |-> FALSE,
             reduced |-> reduced]
       ELSE IF a > 0
       THEN LRParse(cmds, toks, i + 1, Append(states, a),
                    Append(vals, PyStr(toks[i].value)), reduced)
       ELSE LET r == 0 - a
                keep == Len(states) - Productions[r].len
                res == Reduce(cmds, r, SubSeq(vals, keep + 1, Len(vals)))
            IN IF res.err # ""
               THEN [err |-> res.err, text |-> <<>>, syntax |-> FALSE,
                     reduced |-> reduced \cup {r}]
               ELSE LRParse(cmds, toks, i,
                            Append(SubSeq(states, 1, keep),
                                   Goto(states[keep], Productions[r].lhs)),
                            Append(SubSeq(vals, 1, keep), res.val),
                            reduced \cup {r})

\* InteractivePartialParser(commands).parse(lexer) on a lexer that hands out
\* the tokens toks one by one
parser_parse(cmds, toks) == LRParse(cmds, toks, 1, <<0>>, <<PyNone>>, {})

\* InteractiveLexer.token(): it reads self.lexer, which __init__ does not set.
InteractiveLexer_token == [err |-> "AttributeError", type |-> "", value |-> <<>>]

\* ------------------------------------------- CommandManager.parse_partial
\* CommandManager.parse_partial(cmdstr): the lexer is built first, with the
\* list of one-word commands where InteractiveLexer takes the lexer state;
\* the parser runs inside the try and begins by asking the lexer's token()
\* for the first token; the try catches CommandError only; whitespace_map
\* is only ever set by the except branch.
ParsePartial(s, onewords) ==
    LET lx == InteractiveLexer(s, StateList) IN
    IF lx.err # "" THEN [err |-> lx.err, typer |-> <<>>, wsmap |-> <<>>]
    ELSE IF InteractiveLexer_token.err = "CommandError"
    THEN [err |-> "", typer |-> <<PyTuple("commander_invalid", s)>>, wsmap |-> <<>>]
    ELSE [err |-> IF InteractiveLexer_token.err # "" THEN InteractiveLexer_token.err
                  ELSE "AttributeError",
          typer |-> <<>>, wsmap |-> <<>>]

\* parse_partial(cmdstr) on the manager
parse_partial ==
    /\ LET r == ParsePartial(cmdstr, oneword_commands) IN
        langRes' = [NoLang EXCEPT !.op = "parse_partial", !.outcome = Outcome(r.err),
                                 !.typer = r.typer, !.wsmap = r.wsmap]
    /\ UNCHANGED cmdstr
    /\ UNCHANGED asyncVars
    /\ UNCHANGED cmdVars
    /\ UNCHANGED bufVars

\* What the tolerant grammar leaves in langRes for the tokens it was given.
Parsed(toks, r) ==
    [NoLang EXCEPT !.op = "partial_parse", !.outcome = Outcome(r.err),
                   !.tokens = toks, !.typer = r.text,
                   !.syntax = r.syntax, !.reduced = r.reduced]

\* The tolerant grammar on the command line: the parser over the manager's
\* commands reads the line from the lexer get_tokens makes (create_lexer on
\* the line, switched to the interactive state).
partial_parse ==
    /\ langRes' = Parsed(get_tokens(cmdstr, StateName("interactive")).tokens,
                         parser_parse(commands,
                                      get_tokens(cmdstr, StateName("interactive")).tokens))
    /\ UNCHANGED cmdstr
    /\ UNCHANGED asyncVars
    /\ UNCHANGED cmdVars
    /\ UNCHANGED bufVars

\* ----------------------------------------------------------- bounds (buffer)
\* Longest text the keys typed into the buffer build up.
MaxText == 2

\* Consecutive completion cycles that are counted.
MaxCycles == 4

\* The texts a buffer is constructed over (CommandBuffer's start argument).
Starts == {<<>>, <<"[", "]", "]">>}

\* The keys CommandEdit.keypress hands to insert: single characters.
Keys == {"a", " ", "[", "]", "(", ")", "'"}

\* ------------------------------------- the buffer's master.commands object
\* CommandBuffer only uses master.commands.parse_partial and hands
\* master.commands to the completion of a type. Two kinds of master are
\* explored: one whose commands object is the CommandManager of command.py,
\* and one whose parse_partial returns ParseResult values as its signature
\* declares and as cycle_completion reads them (.value, .type).
Masters == {"CommandManager", "ParseResults"}

\* The command names the second kind has registered, in registration order.
DeclaredCommands == <<<<"b">>, <<"a", "a">>, <<"a">>>>

\* mitmproxy.types.Cmd, the type of a command reference
Cmd == "cmd"

\* The types CommandTypes.get finds an entry for.
TypeEntries == CommandTypes \cup {Cmd}

ParseResult(value, type, valid) == [value |-> value, type |-> type, valid |-> valid]

\* The text cut into its maximal runs of whitespace and of anything else.
RECURSIVE Runs(_, _)
Runs(s, i) ==
    IF i > Len(s) THEN <<>>
    ELSE LET n == Run(s, i, SpaceChars, s[i] \in SpaceChars) IN
         <<SubSeq(s, i, i + n - 1)>> \o Runs(s, i + n)

IsKnown(names, v) == \E k \in 1 .. Len(names) : names[k] = v

\* parse_partial as declared: one ParseResult per run, and an empty node
\* under way when the text is empty or ends in whitespace. The first word is
\* a command reference; the words after a known command are typed by its
\* parameters (strings), those after an unknown command have no type entry.
DeclaredNodes(s, runs) ==
    IF s = <<>> \/ s[Len(s)] \in SpaceChars THEN runs \o <<<<>>>> ELSE runs

IsWhiteNode(node) == node # <<>> /\ node[1] \in SpaceChars

DeclaredResults(names, nodes, first) ==
    [k \in 1 .. Len(nodes) |->
          IF IsWhiteNode(nodes[k]) THEN ParseResult(nodes[k], "space", TRUE)
          ELSE IF k = first THEN ParseResult(nodes[k], Cmd, IsKnown(names, nodes[k]))
          ELSE IF IsKnown(names, nodes[first]) THEN ParseResult(nodes[k], "str", TRUE)
          ELSE ParseResult(nodes[k], "unknown", FALSE)]

DeclaredTyped(names, nodes) ==
    DeclaredResults(names, nodes, SetMin({k \in 1 .. Len(nodes) : ~IsWhiteNode(nodes[k])}))

DeclaredParse(names, s) == DeclaredTyped(names, DeclaredNodes(s, Runs(s, 1)))

\* ct.completion(manager, type, value): every command name for a command
\* reference, nothing for the other types
TypeCompletion(names, t) == IF t = Cmd THEN names ELSE <<>>

\* self.master.commands.parse_partial(text)
MasterParsePartial(m, s) ==
    IF m = "CommandManager"
    THEN LET r == ParsePartial(s, <<>>) IN [err |-> r.err, parts |-> r.typer]
    ELSE [err |-> "", parts |-> DeclaredParse(DeclaredCommands, s)]

\* ------------------------------------------------------------ ListCompleter
\* Characters in code point order, for the comparison of strings.
CodePoints ==
    <<" ", "\"", "'", "(", ")", ".", "0", "1", "2", "3", "4", "5", "6", "7", "8", "9",
      "[", "]", "_", "a", "b", "c", "x", "|">>

Ord(c) == CHOOSE k \in 1 .. Len(CodePoints) : CodePoints[k] = c

\* a < b for strings
RECURSIVE StrLess(_, _)
StrLess(a, b) ==
    IF b = <<>> THEN FALSE
    ELSE IF a = <<>> THEN TRUE
    ELSE IF a[1] # b[1] THEN Ord(a[1]) < Ord(b[1])
    ELSE StrLess(Tail(a), Tail(b))

\* o.startswith(start)
StartsWith(o, start) == Len(start) <= Len(o) /\ SubSeq(o, 1, Len(start)) = start

\* ListCompleter(start, options) without the sort (the options in the order given)
ListCompleter_unsorted(start, options) ==
    [start |-> start,
     options |-> SelectSeq(options, LAMBDA o : StartsWith(o, start)),
     offset |-> 0]

\* ListCompleter(start, options)
ListCompleter(start, options) ==
    [start |-> start,
     options |-> SortSeq(SelectSeq(options, LAMBDA o : StartsWith(o, start)), StrLess),
     offset |-> 0]

\* ListCompleter.cycle(): the string returned and the offset afterwards
ListCompleterCycle(c) ==
    IF c.options = <<>> THEN [ret |-> c.start, offset |-> c.offset]
    ELSE [ret |-> c.options[c.offset + 1],
          offset |-> (c.offset + 1) % Len(c.options)]

\* ------------------------------------------------------------ CommandBuffer
\* a cursor setter that stores what it is given
SetCursor_unclamped(x, txt) == x

\* cursor.setter, against the text at the time of the assignment
SetCursor(x, txt) ==
    IF x < 0 THEN 0
    ELSE IF x > Len(txt) THEN Len(txt)
    ELSE x

\* "".join(values)
RECURSIVE Join(_)
Join(values) == IF values = <<>> THEN <<>> ELSE Head(values) \o Join(Tail(values))

ValuesOfText(spans) == [k \in 1 .. Len(spans) |-> spans[k].text]

ValuesOf(parts) == [k \in 1 .. Len(parts) |-> parts[k].value]

\* What an operation leaves in bufRes: its name, how it ended and its key;
\* `cycles` counts the cycle() calls on the completer in use (up to
\* MaxCycles) and `bracket` is the most recent bracket event; both are kept
\* by the operations that have nothing to do with them.
BufRes(op, outcome, key) ==
    [op |-> op, outcome |-> outcome, key |-> key, spans |-> <<>>, nxt |-> <<>>,
     deleted |-> <<>>, cycles |-> bufRes.cycles, bracket |-> bufRes.bracket]

\* The characters of txt dropped to arrive at newtext, when the cursor was at cur.
Deleted(txt, newtext, cur) == SubSeq(txt, cur, cur + (Len(txt) - Len(newtext)) - 1)

\* The most recent bracket event after a backspace that deleted `gone`: the
\* deletion of "[" (alone or with its partner), of "]", or the earlier event.
BracketEvent(gone, earlier) ==
    IF \E k \in 1 .. Len(gone) : gone[k] = "[" THEN "delete ["
    ELSE IF \E k \in 1 .. Len(gone) : gone[k] = "]" THEN "delete ]"
    ELSE earlier

\* CommandBuffer.render(): the parse of the text comes first, then the
\* markup is rearranged (nothing of which reaches the caller), and the text
\* is returned as one span.
Render(m, txt) ==
    LET pp == MasterParsePartial(m, txt) IN
    IF pp.err # "" THEN [err |-> pp.err, spans |-> <<>>]
    ELSE [err |-> "", spans |-> <<[style |-> "text", text |-> txt]>>]

render ==
    /\ LET r == Render(master, text) IN
        bufRes' = [BufRes("render", Outcome(r.err), "") EXCEPT !.spans = r.spans]
    /\ UNCHANGED <<master, text, cursor, autoclosing, completion>>
    /\ UNCHANGED asyncVars
    /\ UNCHANGED cmdVars
    /\ UNCHANGED langVars

\* CommandBuffer.left()
left ==
    /\ cursor' = SetCursor(cursor - 1, text)
    /\ bufRes' = BufRes("left", "ok", "")
    /\ UNCHANGED <<master, text, autoclosing, completion>>
    /\ UNCHANGED asyncVars
    /\ UNCHANGED cmdVars
    /\ UNCHANGED langVars

\* CommandBuffer.right()
right ==
    /\ cursor' = SetCursor(cursor + 1, text)
    /\ bufRes' = BufRes("right", "ok", "")
    /\ UNCHANGED <<master, text, autoclosing, completion>>
    /\ UNCHANGED asyncVars
    /\ UNCHANGED cmdVars
    /\ UNCHANGED langVars

\* The completion state after `if not self.completion:`: the running one, or
\* a fresh ListCompleter when the type of the last part has a completer.
Started(comp, parts) ==
    IF comp.active THEN comp
    ELSE IF parts[Len(parts)].type \in TypeEntries
    THEN [active |-> TRUE, parse |-> parts] @@
         ListCompleter(parts[Len(parts)].value,
                       TypeCompletion(DeclaredCommands, parts[Len(parts)].type))
    ELSE comp

\* `if self.completion:` with nxt = self.completion.completer.cycle(): the
\* buffer is the parts before the last one joined, then nxt.
Cycled(started, cyc) ==
    [err |-> "",
     text |-> Join(ValuesOf(SliceTo(started.parse, Len(started.parse) - 1))) \o cyc.ret,
     cursor |-> Len(Join(ValuesOf(SliceTo(started.parse, Len(started.parse) - 1)))) + Len(cyc.ret),
     completion |-> [started EXCEPT !.offset = cyc.offset], nxt |-> cyc.ret]

\* cycle_completion() once the text up to the cursor has been parsed into pp
CycleParsed(txt, cur, comp, pp) ==
    IF ~comp.active /\ pp.err # ""
    THEN [err |-> pp.err, text |-> txt, cursor |-> cur, completion |-> comp, nxt |-> <<>>]
    ELSE IF ~comp.active /\ pp.parts = <<>>
    THEN [err |-> "IndexError", text |-> txt, cursor |-> cur, completion |-> comp, nxt |-> <<>>]
    ELSE IF ~Started(comp, pp.parts).active
    THEN [err |-> "", text |-> txt, cursor |-> cur, completion |-> comp, nxt |-> <<>>]
    ELSE Cycled(Started(comp, pp.parts), ListCompleterCycle(Started(comp, pp.parts)))

\* The candidate alone as the buffer, where r kept the parts before it
WholeText(r) ==
    IF r.err = "" /\ r.completion.active
    THEN [r EXCEPT !.text = r.nxt, !.cursor = Len(r.nxt)]
    ELSE r

\* cycle_completion that replaces the whole text by the candidate
CycleCompletion_whole(m, txt, cur, comp) ==
    WholeText(CycleParsed(txt, cur, comp, MasterParsePartial(m, SliceTo(txt, cur))))

\* CommandBuffer.cycle_completion(), on the text, cursor and completion given
CycleCompletion(m, txt, cur, comp) ==
    CycleParsed(txt, cur, comp, MasterParsePartial(m, SliceTo(txt, cur)))

\* The buffer after cycle_completion() returned or raised as r tells
CycleStep(r) ==
    /\ text' = r.text
    /\ cursor' = r.cursor
    /\ completion' = r.completion
    /\ bufRes' = [BufRes("cycle_completion", Outcome(r.err), "") EXCEPT
                      !.nxt = r.nxt,
                      !.cycles = IF r.err = "" /\ r.completion.active /\ @ < MaxCycles
                                 THEN @ + 1 ELSE @]

cycle_completion ==
    /\ CycleStep(CycleCompletion(master, text, cursor, completion))
    /\ UNCHANGED <<master, autoclosing>>
    /\ UNCHANGED asyncVars
    /\ UNCHANGED cmdVars
    /\ UNCHANGED langVars

\* brackets = ("''", '""', "()", "[]")
brackets == {<<"'", "'">>, <<"\"", "\"">>, <<"(", ")">>, <<"[", "]">>}

\* backspace that knows no pairs
Backspace_single(txt, cur, ac, comp) ==
    IF cur = 0 THEN [text |-> txt, cursor |-> cur, autoclosing |-> ac, completion |-> comp]
    ELSE LET newtext == SliceTo(txt, cur - 1) \o SliceFrom(txt, cur) IN
         [text |-> newtext,
          autoclosing |-> IF txt[cur] = "]" THEN FALSE ELSE IF txt[cur] = "[" THEN TRUE ELSE ac,
          cursor |-> SetCursor(cur - 1, newtext),
          completion |-> NoCompletion]

\* CommandBuffer.backspace(); txt[cur] is self.text[self.cursor - 1]
Backspace(txt, cur, ac, comp) ==
    IF cur = 0 THEN [text |-> txt, cursor |-> cur, autoclosing |-> ac, completion |-> comp]
    ELSE LET possible_brackets_pair == SliceTo(SliceFrom(txt, cur - 1), 2)
             newtext == IF possible_brackets_pair \in brackets
                        THEN SliceTo(txt, cur - 1) \o SliceFrom(txt, cur + 1)
                        ELSE SliceTo(txt, cur - 1) \o SliceFrom(txt, cur)
         IN [text |-> newtext,
             autoclosing |-> IF possible_brackets_pair \in brackets THEN ac
                             ELSE IF txt[cur] = "]" THEN FALSE
                             ELSE IF txt[cur] = "[" THEN TRUE
                             ELSE ac,
             cursor |-> SetCursor(cur - 1, newtext),
             completion |-> NoCompletion]

backspace ==
    /\ LET r == Backspace(text, cursor, autoclosing, completion) IN
        /\ text' = r.text
        /\ cursor' = r.cursor
        /\ autoclosing' = r.autoclosing
        /\ completion' = r.completion
        /\ bufRes' = [BufRes("backspace", "ok", "") EXCEPT
                          !.deleted = IF cursor = 0 THEN <<>> ELSE Deleted(text, r.text, cursor),
                          !.cycles = IF r.completion.active THEN @ ELSE 0,
                          !.bracket = IF cursor = 0 THEN @
                                      ELSE BracketEvent(Deleted(text, r.text, cursor), @)]
    /\ UNCHANGED master
    /\ UNCHANGED asyncVars
    /\ UNCHANGED cmdVars
    /\ UNCHANGED langVars

\* CommandBuffer.insert(k)
insert(k) ==
    /\ Len(text) < MaxText
    /\ LET newtext == SliceTo(text, cursor) \o <<k>> \o SliceFrom(text, cursor) IN
        /\ text' = newtext
        /\ cursor' = SetCursor(cursor + 1, newtext)
    /\ autoclosing' = IF k = "[" THEN TRUE ELSE autoclosing
    /\ completion' = NoCompletion
    /\ bufRes' = [BufRes("insert", "ok", k) EXCEPT
                      !.cycles = 0,
                      !.bracket = IF k = "[" THEN "insert [" ELSE @]
    /\ UNCHANGED master
    /\ UNCHANGED asyncVars
    /\ UNCHANGED cmdVars
    /\ UNCHANGED langVars

\* A buffer over either kind of master and over a start text.
InitBuf ==
    /\ InitAsync /\ InitCmd /\ argv = <<>> /\ offered = <<>>
    /\ cmdstr = <<>> /\ langRes = NoLang
    /\ \E m \in Masters, start \in Starts : InitBufWith(m, start)

NextBuf ==
    \/ \E k \in Keys : insert(k)
    \/ backspace
    \/ left
    \/ right
    \/ cycle_completion
    \/ render

\* The keys of CommandEdit.keypress on the buffer, and its rendering.
SpecBuf == InitBuf /\ [][NextBuf]_vars

\* CommandManager.__init__: an empty registry and a fresh execution tracker
Init == InitAsync /\ InitCmd /\ argv = <<>> /\ offered = <<>> /\ InitUi

\* A fresh manager, and the argument list its caller is going to pass.
InitCall == InitAsync /\ InitCmd /\ argv \in ArgLists /\ offered = <<>> /\ InitUi

\* A fresh manager, and the addon whose commands are going to be collected.
InitReg == InitAsync /\ InitCmd /\ argv = <<>> /\ offered \in Addons /\ InitUi

NextAsync ==
    \/ \E cmdline \in Texts : add_command(cmdline)
    \/ \E cid \in Cids : stop_command(cid)
    \/ \E cid \in 1 .. MaxCmds : task_done(cid)
    \/ delete_callback

Spec == Init /\ [][NextAsync]_vars

\* The event loop keeps running scheduled callbacks.
SpecLive == Spec /\ WF_vars(delete_callback)

NextCmd ==
    \/ \E path \in Paths, f \in Callables : add(path, f)
    \/ \E path \in Paths : get_command_by_path(path)
    \/ \E path \in Paths : call(path, argv)
    \/ \E path \in Paths : call_strings(path, argv)
    \/ \E path \in Paths : prepare_args(path, argv)
    \/ \E path \in Paths : async_call(path, argv)

\* Registration of callables through add, lookups, and calls with the
\* caller's arguments.
SpecCmd == InitCall /\ [][NextCmd]_vars

NextReg ==
    \/ \E k \in 1 .. Len(offered) : add(offered[k].path, offered[k].func)
    \/ collect_commands(offered)

\* Registration of an addon's commands, one by one through add and in one
\* pass through collect_commands.
SpecReg == InitReg /\ [][NextReg]_vars

\* ------------------------------------------------ structures.CommandSpace
\* Arg(value, type, valid)
Arg(value, type, valid) == [value |-> value, type |-> type, valid |-> valid]

\* CommandSpace.is_valid(typ, value): no entry for typ gives False, else
\* the entry's parse decides; the command type accepts the registered paths.
is_valid(cmds, typ, value) ==
    IF typ \notin TypeEntries THEN FALSE
    ELSE IF typ = Cmd THEN IsStr(value) /\ value.s \in DOMAIN cmds
    ELSE TypeParse(typ, value).ok

\* The loop of __init__ over the arguments: typ is the local of that name
\* ("<unbound>" until its first assignment),
\* params the declared types not yet taken, arguments the nodes so far.
\* When params is empty pop(0) raises IndexError, the handler appends a node
\* without a type, and the two statements after the try still run.
RECURSIVE SpaceArguments(_, _, _, _, _)
SpaceArguments(cmds, params, typ, arguments, rest) ==
    IF rest = <<>> THEN [err |-> "", params |-> params, arguments |-> arguments]
    ELSE LET arg == Head(rest) IN
         IF params # <<>>
         THEN SpaceArguments(cmds, Tail(params), Head(params),
                             Append(arguments,
                                    Arg(arg, Head(params), is_valid(cmds, Head(params), arg))),
                             Tail(rest))
         ELSE LET untyped == Append(arguments, Arg(arg, "None", FALSE)) IN
              IF typ = "<unbound>"
              THEN [err |-> "UnboundLocalError", params |-> params, arguments |-> untyped]
              ELSE SpaceArguments(cmds, params, typ,
                                  Append(untyped, Arg(arg, typ, is_valid(cmds, typ, arg))),
                                  Tail(rest))

\* CommandSpace(command_name, manager, arguments=arguments), with head, tail
\* and autoclosing left at their defaults
CommandSpace(command_name, cmds, arguments) ==
    LET validC == is_valid(cmds, Cmd, Str(command_name))
        loop == SpaceArguments(cmds,
                               IF validC THEN cmds[command_name].paramtypes ELSE <<>>,
                               "<unbound>", <<>>, arguments)
    IN [err |-> loop.err, name |-> command_name, params |-> loop.params,
        arguments |-> loop.arguments,
        markup_attr |-> IF validC THEN "commander_command" ELSE "commander_invalid"]

\* InteractivePartialParser(commands).check_command(cmdstr)
check_command ==
    /\ LET c == CheckCommand(commands, cmdstr) IN
        langRes' = [NoLang EXCEPT !.op = "check_command", !.name = cmdstr,
                                 !.markup_attr = c.command_text.style,
                                 !.params = c.params]
    /\ UNCHANGED cmdstr
    /\ UNCHANGED asyncVars
    /\ UNCHANGED cmdVars
    /\ UNCHANGED bufVars

\* CommandSpace(cmdstr, manager, arguments=argv)
command_space ==
    /\ LET c == CommandSpace(cmdstr, commands, argv) IN
        langRes' = [NoLang EXCEPT !.op = "CommandSpace", !.outcome = Outcome(c.err),
                                 !.name = cmdstr, !.markup_attr = c.markup_attr,
                                 !.params = c.params, !.arguments = c.arguments]
    /\ UNCHANGED cmdstr
    /\ UNCHANGED asyncVars
    /\ UNCHANGED cmdVars
    /\ UNCHANGED bufVars

\* ------------------------------------------------ strict grammar (spec 4.4)
\* The positions right after one argument that starts at token i: a plain or
\* quoted string or a command reference, an array with its closing bracket,
\* a parenthesized call with its closing paren.
RECURSIVE ArgEnds(_, _)
RECURSIVE ArgsEnds(_, _)
ArgEnds(toks, i) ==
    IF i > Len(toks) THEN {}
    ELSE (IF toks[i].type \in {"PLAIN_STR", "QUOTED_STR", "COMMAND"} THEN {i + 1} ELSE {})
         \cup (IF toks[i].type = "LBRACE"
               THEN {j + 1 : j \in {e \in ArgsEnds(toks, i + 1) :
                                      e <= Len(toks) /\ toks[e].type = "RBRACE"}}
               ELSE {})
         \cup (IF toks[i].type = "COMMAND" /\ i < Len(toks) /\ toks[i + 1].type = "LPAREN"
               THEN {j + 1 : j \in {e \in ArgsEnds(toks, i + 2) :
                                      e <= Len(toks) /\ toks[e].type = "RPAREN"}}
               ELSE {})

\* the positions right after zero or more arguments that start at token i
ArgsEnds(toks, i) == {i} \cup UNION {ArgsEnds(toks, j) : j \in ArgEnds(toks, i)}

\* the positions right after one command call or array that starts at i
StageEnds(toks, i) ==
    IF i > Len(toks) THEN {}
    ELSE (IF toks[i].type \in {"LBRACE", "COMMAND"} THEN ArgEnds(toks, i) \ {i + 1} ELSE {})
         \cup (IF toks[i].type = "COMMAND" THEN ArgsEnds(toks, i + 1) ELSE {})

\* the positions right after a pipeline that starts at token i
RECURSIVE PipelineEnds(_, _)
PipelineEnds(toks, i) ==
    LET ends == StageEnds(toks, i) IN
    ends \cup UNION {PipelineEnds(toks, e + 1) :
                       e \in {x \in ends : x <= Len(toks) /\ toks[x].type = "PIPE"}}

\* the strict grammar accepts the tokens of a line (whitespace is not a
\* token in strict mode): nothing, or pipe-separated command calls and arrays
StrictAccepts(toks) == toks = <<>> \/ (Len(toks) + 1) \in PipelineEnds(toks, 1)

\* p is what has been typed of some line the strict grammar accepts
StrictPrefix(p, onewords) ==
    \E s \in LexTexts :
        /\ Len(p) <= Len(s) /\ SubSeq(s, 1, Len(p)) = p
        /\ StrictAccepts(create_lexer(s, onewords))

\* A fresh manager, and the command line its lexer is going to read.
InitLex ==
    /\ InitAsync /\ InitCmd /\ argv = <<>> /\ offered = <<>>
    /\ cmdstr \in LexTexts /\ langRes = NoLang
    /\ InitBufWith("CommandManager", <<>>)

NextLex ==
    \/ \E path \in Paths : add(path, "two")
    \/ lex_strict
    \/ lex_interactive
    \/ partial_parse
    \/ parse_partial

\* Registration of commands, and the lexer in its two modes.
SpecLex == InitLex /\ [][NextLex]_vars

\* A fresh manager, the name of a command (a registrable path or one that is
\* never registered) and the arguments given to it.
InitSpace ==
    /\ InitAsync /\ InitCmd /\ argv \in ArgLists /\ offered = <<>>
    /\ cmdstr \in Paths \cup {<<"x">>} /\ langRes = NoLang
    /\ InitBufWith("CommandManager", <<>>)

NextSpace ==
    \/ \E path \in Paths, f \in Callables : add(path, f)
    \/ check_command
    \/ command_space

\* Registration of commands, and the command nodes of the tolerant grammar.
SpecSpace == InitSpace /\ [][NextSpace]_vars

\* ------------------------------------------------------------ async_execute
\* Command lines submitted for asynchronous execution: a one-word name (a
\* command only once registered), a dotted name, and a call whose
\* parenthesis is never closed.
ExecLines == {<<"a">>, <<"a", ".", "a">>, <<"a", ".", "a", "(">>}

\* async_execute that tracks the submission before it parses the line
async_execute_eager(s) ==
    /\ counter < MaxCmds
    /\ cmdstr' = s
    /\ counter' = counter + 1
    /\ tasks' = SetKey(tasks, counter', NewTask(s))
    /\ running_cmds' = SetKey(running_cmds, counter', RunningCommand(s, counter'))
    /\ asyncRes' = IF StrictAccepts(create_lexer(s, oneword_commands))
                   THEN AsyncRes("async_execute", counter', "ok")
                   ELSE AsyncRes("async_execute", 0, "CommandError")
    /\ UNCHANGED <<ready, stopped>>
    /\ UNCHANGED cmdVars
    /\ UNCHANGED <<langRes, master, text, cursor, autoclosing, completion, bufRes>>

\* CommandManager.async_execute(s): the strict parse of the line comes
\* first and raises CommandError on a line the grammar does not accept;
\* only then is the task created and handed to
\* self.async_manager.add_command(RunningCommand(cmdstr, command_task)).
async_execute(s) ==
    /\ cmdstr' = s
    /\ IF StrictAccepts(create_lexer(s, oneword_commands))
       THEN /\ counter < MaxCmds
            /\ counter' = counter + 1
            /\ tasks' = SetKey(tasks, counter', NewTask(s))
            /\ running_cmds' = SetKey(running_cmds, counter', RunningCommand(s, counter'))
            /\ asyncRes' = AsyncRes("async_execute", counter', "ok")
       ELSE /\ asyncRes' = AsyncRes("async_execute", 0, "CommandError")
            /\ UNCHANGED <<counter, tasks, running_cmds>>
    /\ UNCHANGED <<ready, stopped>>
    /\ UNCHANGED cmdVars
    /\ UNCHANGED <<langRes, master, text, cursor, autoclosing, completion, bufRes>>

NextExec ==
    \/ add(<<"a">>, "two")
    \/ \E s \in ExecLines : async_execute(s)
    \/ \E cid \in 1 .. MaxCmds : task_done(cid)
    \/ delete_callback

\* Submission of command lines for asynchronous execution, registration
\* and the completion of the tasks.
SpecExec == Init /\ [][NextExec]_vars

\* ------------------------------------------------------- tracker claims
\* Invocations that were added and have neither been cancelled by
\* stop_command nor had their completion hook run.
Surviving == {i \in DOMAIN tasks : i \notin stopped /\ tasks[i].hook # "ran"}

\* C1: stop_command(cid) on a cid that is not tracked fails and leaves
\* running_cmds and counter unchanged; and once stop_command(cid) has
\* succeeded, every later stop_command(cid) fails, whatever happened between.
C1_CancelUntrackedFails ==
    [][ /\ (asyncRes'.op = "stop_command" /\ asyncRes'.cid \notin DOMAIN running_cmds)
            => /\ asyncRes'.outcome = "ValueError"
               /\ running_cmds' = running_cmds
               /\ counter' = counter
        /\ (asyncRes'.op = "stop_command" /\ asyncRes'.cid \in stopped)
            => asyncRes'.outcome = "ValueError"
      ]_vars

\* A second stop_command on an already cancelled cid has just failed, after
\* another command was added in between.
C1_Witness ==
    /\ asyncRes.op = "stop_command"
    /\ asyncRes.outcome = "ValueError"
    /\ asyncRes.cid \in stopped
    /\ counter > asyncRes.cid

\* C2: get_running() lists exactly one (cid, original text) pair per surviving
\* invocation, in strictly ascending cid order; the cid just returned by
\* add_command is listed and the cid just cancelled is not.
C2_ListRunningExact ==
    LET r == get_running
        pairs == {r[k] : k \in 1 .. Len(r)}
    IN /\ Len(r) = Cardinality(Surviving)
       /\ pairs = {<<i, tasks[i].text>> : i \in Surviving}
       /\ \A k \in 1 .. Len(r) - 1 : r[k][1] < r[k + 1][1]
       /\ asyncRes.op = "add_command"
            => <<asyncRes.cid, tasks[asyncRes.cid].text>> \in pairs
       /\ (asyncRes.op = "stop_command" /\ asyncRes.outcome = "ok")
            => \A k \in 1 .. Len(r) : r[k][1] # asyncRes.cid

\* Two commands are listed in order; or one is listed after an earlier one
\* was cancelled.
C2_Witness ==
    \/ /\ Len(get_running) = 2
       /\ get_running[1][2] # get_running[2][2]
    \/ /\ Len(get_running) = 1
       /\ get_running[1][1] > 1
       /\ stopped # {}

\* C3: a tracked invocation whose task has finished is eventually no longer
\* tracked (the event loop runs its completion hook).
C3_FinishedEventuallyRemoved ==
    \A i \in 1 .. MaxCmds :
        (i \in DOMAIN running_cmds /\ tasks[i].state # "pending")
            ~> (i \notin DOMAIN running_cmds)

\* The completion hook of a task that failed has just removed its entry.
C3_Witness ==
    /\ asyncRes.op = "_delete_callback"
    /\ asyncRes.outcome = "ok"
    /\ tasks[asyncRes.cid].state = "exception"
    /\ asyncRes.cid \notin DOMAIN running_cmds

\* C4: ids are fresh and strictly increasing: the counter never decreases,
\* the id add_command issues is greater than the counter before the call
\* (hence than every id issued before), and every tracked id is in 1..counter.
C4_FreshIncreasingIds ==
    /\ [](DOMAIN running_cmds \subseteq 1 .. counter)
    /\ [][ /\ counter' >= counter
           /\ asyncRes'.op = "add_command"
                => /\ asyncRes'.cid > counter
                   /\ asyncRes'.cid = counter'
                   /\ asyncRes'.cid \in DOMAIN running_cmds'
         ]_vars

\* An id was issued after the entry of the previous id had been removed.
C4_Witness ==
    /\ asyncRes.op = "add_command"
    /\ asyncRes.cid >= 2
    /\ (asyncRes.cid - 1) \notin DOMAIN running_cmds

\* ------------------------------------------------------ registry claims
\* Operations that run Command.prepare_args on the caller's arguments.
PrepOps == {"prepare_args", "call_strings", "async_call"}

\* The last operation ran prepare_args of a registered command.
Prepared == cmdRes.op \in PrepOps /\ cmdRes.path \in DOMAIN commands

\* The command the last operation was applied to.
Used == commands[cmdRes.path]

AllStr(args) == \A k \in 1 .. Len(args) : IsStr(args[k])

\* Argument k is acceptable at the position of type t: a string that parses,
\* or a non-string that validates.
Acceptable(t, arg) == IF IsStr(arg) THEN TypeParse(t, arg).ok ELSE TypeIsValid(t, arg)

\* C5: a non-variadic command with two declared parameters rejects 1 or 3
\* string arguments with an argument-mismatch error, accepts 2 string
\* arguments that coerce, and never runs the callable when preparation fails.
C5_ArityTwo ==
    (Prepared /\ ~Used.has_positional /\ Len(Used.paramtypes) = 2 /\ AllStr(cmdRes.args))
    => LET args == cmdRes.args
           coerce == Len(args) = 2
                     /\ \A k \in 1 .. 2 : TypeParse(Used.paramtypes[k], args[k]).ok
       IN /\ Len(args) \in {1, 3}
              => /\ cmdRes.prep = "CommandError: command argument mismatch"
                 /\ cmdRes.outcome = "CommandError: command argument mismatch"
          /\ coerce => (cmdRes.prep = "ok" /\ Len(cmdRes.pargs) = 2)
          /\ cmdRes.prep # "ok" => cmdRes.invoked = <<>>
          /\ ~coerce => cmdRes.prep # "ok"

\* Three strings were passed to a two-parameter command: mismatch, no call.
C5_Witness ==
    /\ Prepared
    /\ cmdRes.op = "call_strings"
    /\ ~Used.has_positional /\ Len(Used.paramtypes) = 2
    /\ Len(cmdRes.args) = 3 /\ AllStr(cmdRes.args)
    /\ cmdRes.outcome = "CommandError: command argument mismatch"
    /\ cmdRes.invoked = <<>>

\* C6: for a variadic command with n declared parameters and m >= n-1
\* arguments, prepare_args returns m values: the first n-1 coerced or
\* validated, the others the trailing arguments themselves, in order.
C6_VariadicPassThrough ==
    (Prepared /\ Used.has_positional /\ Len(cmdRes.args) >= Len(Used.paramtypes) - 1)
    => LET args == cmdRes.args
           n == Len(Used.paramtypes)
           fixedOK == \A k \in 1 .. n - 1 : Acceptable(Used.paramtypes[k], args[k])
       IN /\ fixedOK <=> cmdRes.prep = "ok"
          /\ cmdRes.prep = "ok"
              => /\ Len(cmdRes.pargs) = Len(args)
                 /\ \A k \in 1 .. n - 1 :
                      cmdRes.pargs[k] = IF IsStr(args[k])
                                        THEN TypeParse(Used.paramtypes[k], args[k]).val
                                        ELSE args[k]
                 /\ \A k \in n .. Len(args) : cmdRes.pargs[k] = args[k]

\* A digit string in fixed position became an int while the same string and
\* a non-numeric one in the variadic tail stayed as they were.
C6_Witness ==
    /\ Prepared
    /\ Used.has_positional
    /\ cmdRes.prep = "ok"
    /\ Len(cmdRes.pargs) = Len(Used.paramtypes) + 1
    /\ cmdRes.pargs[1] = IntV(17)
    /\ cmdRes.pargs[2] = Str(<<"1", "7">>)
    /\ cmdRes.pargs[3] = Str(<<"x">>)

\* C7: in prepare_args a fixed position is parsed iff its argument is a
\* string; a non-string is only validated: kept as the identical value when
\* valid, and the call fails with an error when not.
C7_CoerceOnlyStrings ==
    Prepared
    => LET args == cmdRes.args
           pt == Used.paramtypes
           calls == cmdRes.calls
           nfixed == IF Used.has_positional THEN Len(pt) - 1 ELSE Len(pt)
       IN /\ \A k \in 1 .. Len(calls) :
                /\ calls[k] \in {"parse", "is_valid"}
                /\ calls[k] = "parse" <=> IsStr(args[k])
          /\ cmdRes.prep = "ok"
              => /\ Len(calls) = nfixed
                 /\ \A k \in 1 .. nfixed :
                      ~IsStr(args[k]) => /\ TypeIsValid(pt[k], args[k])
                                         /\ cmdRes.pargs[k] = args[k]
          /\ (cmdRes.prep # "CommandError: command argument mismatch")
              => \A k \in 1 .. nfixed :
                   ( /\ ~IsStr(args[k])
                     /\ ~TypeIsValid(pt[k], args[k])
                     /\ \A j \in 1 .. k - 1 : Acceptable(pt[j], args[j]) )
                   => /\ cmdRes.prep = "CommandError: unexpected data"
                      /\ Len(calls) = k
                      /\ cmdRes.invoked = <<>>

\* An int was validated and kept in the first position and a string was
\* parsed in the second.
C7_Witness ==
    /\ Prepared
    /\ cmdRes.prep = "ok"
    /\ cmdRes.calls = <<"is_valid", "parse">>
    /\ cmdRes.pargs[1] = cmdRes.args[1]
    /\ ~IsStr(cmdRes.args[1])

\* C8: when a callable that declares no return type hands back a value, the
\* call completes without error and the value is discarded.
C8_UndeclaredReturnDiscarded ==
    ( /\ cmdRes.op \in {"call_strings", "async_call"}
      /\ cmdRes.path \in DOMAIN commands
      /\ cmdRes.op = "async_call" <=> Used.asyncf
      /\ Used.returntype = "None"
      /\ cmdRes.invoked # <<>>
      /\ cmdRes.ret # NoneV )
    => (cmdRes.outcome = "ok" /\ cmdRes.value = NoneV)

Last(S) == CHOOSE m \in S : \A x \in S : x <= m

PathsOf(entries) == [k \in 1 .. Len(entries) |-> entries[k].path]

\* an addon entry that registers and whose path is a single word
GoodOneword(e) == Registrable(e.func) /\ SplitLen(e.path) = 1

\* an addon entry that cannot be registered
Unmappable(e) == ~Registrable(e.func)

\* C9: registering a callable with an unmappable parameter or return type
\* fails for that command only: add leaves commands and oneword_commands as
\* they were, and collect_commands registers every other command of the addon.
C9_BadRegistrationSkipped ==
    [][ /\ (cmdRes'.op = "add" /\ ~Registrable(cmdRes'.func))
            => /\ cmdRes'.outcome # "ok"
               /\ commands' = commands
               /\ oneword_commands' = oneword_commands
        /\ cmdRes'.op = "collect_commands"
            => LET addon == cmdRes'.addon
                   good == {k \in 1 .. Len(addon) : Registrable(addon[k].func)}
               IN /\ \A p \in Paths :
                        LET gp == {k \in good : addon[k].path = p} IN
                        IF gp = {}
                        THEN /\ p \in DOMAIN commands' <=> p \in DOMAIN commands
                             /\ p \in DOMAIN commands => commands'[p] = commands[p]
                        ELSE /\ p \in DOMAIN commands'
                             /\ commands'[p].func = addon[Last(gp)].func
                             /\ commands'[p].path = p
                  /\ DOMAIN commands' \subseteq Paths
                  /\ oneword_commands' = oneword_commands \o
                        PathsOf(SelectSeq(addon, GoodOneword))
                  /\ cmdRes'.warns = PathsOf(SelectSeq(addon, Unmappable))
      ]_vars

\* An addon was collected of which one command was skipped with a warning
\* and another one was registered.
C9_Witness ==
    /\ cmdRes.op = "collect_commands"
    /\ Len(cmdRes.warns) = 1
    /\ \E k \in 1 .. Len(cmdRes.addon) :
          /\ Registrable(cmdRes.addon[k].func)
          /\ cmdRes.addon[k].path \in DOMAIN commands
          /\ commands[cmdRes.addon[k].path].func = cmdRes.addon[k].func

\* C10: looking up or calling a path that is not registered fails with an
\* unknown-command error, runs no callable and changes neither the registry
\* nor the tracker; looking up a registered path returns the descriptor most
\* recently registered under it.
C10_UnknownCommand ==
    /\ [][ ( /\ cmdRes'.op \in {"get_command_by_path", "call", "call_strings"}
             /\ cmdRes'.path \notin DOMAIN commands )
           => /\ cmdRes'.outcome = "CommandError: Unknown command"
              /\ cmdRes'.invoked = <<>>
              /\ UNCHANGED <<commands, oneword_commands, counter, running_cmds>>
         ]_vars
    /\ []( (cmdRes.op = "get_command_by_path" /\ cmdRes.path \in DOMAIN lastreg)
           => /\ cmdRes.outcome = "ok"
              /\ Len(cmdRes.found) = 1
              /\ cmdRes.found[1].path = cmdRes.path
              /\ cmdRes.found[1].func = lastreg[cmdRes.path] )

\* A call by an unknown path failed while another command was registered.
C10_Witness ==
    /\ cmdRes.op = "call_strings"
    /\ cmdRes.outcome = "CommandError: Unknown command"
    /\ cmdRes.invoked = <<>>
    /\ DOMAIN commands # {}

\* ------------------------------------------------------ language claims
\* the tokens that are not whitespace tokens
StripWhitespace(toks) == SelectSeq(toks, LAMBDA t : t.type # "WHITESPACE")

\* C13: for the same text and the same registry of one-word commands, the
\* tokens (kind and literal) of strict mode equal the tokens of interactive
\* mode with the whitespace tokens removed; a registered one-word command is
\* a COMMAND token in both modes.
C13_ModeConsistency ==
    langRes.op = "get_tokens" =>
        /\ langRes.outcome = "ok"
        /\ StripWhitespace(langRes.tokens) = create_lexer(cmdstr, oneword_commands)

\* -------------------------------------------------------- buffer claims
\* the text of all spans, concatenated
SpansText(spans) == Join([k \in 1 .. Len(spans) |-> spans[k].text])

\* C14: render() returns spans whose concatenated text is identical to the
\* buffer text on the range [0, cursor), after any sequence of operations.
C14_RenderMatchesText ==
    bufRes.op = "render" =>
        /\ bufRes.outcome = "ok"
        /\ SliceTo(SpansText(bufRes.spans), cursor) = SliceTo(text, cursor)

IsSorted(opts) ==
    \A i \in 1 .. Len(opts) : \A j \in 1 .. Len(opts) : i < j => ~StrLess(opts[j], opts[i])

\* The options offered for the last node of a parse: what its type completes to.
OfferedOptions(parse) == TypeCompletion(DeclaredCommands, parse[Len(parse)].type)

Pairs == {<<"'", "'">>, <<"\"", "\"">>, <<"(", ")">>, <<"[", "]">>}

\* C18: backspace() with cursor > 0 deletes the character before the cursor
\* and the one at the cursor exactly when they form one of the pairs,
\* otherwise only the character before the cursor; the cursor moves left by
\* one and the other characters keep their order; with cursor = 0 neither
\* text nor cursor change.
C18_BackspacePairs ==
    [][bufRes'.op = "backspace" =>
        IF cursor = 0 THEN text' = text /\ cursor' = cursor
        ELSE LET ispair == cursor < Len(text) /\ <<text[cursor], text[cursor + 1]>> \in Pairs
                 gone == IF ispair THEN 2 ELSE 1
             IN /\ text' = SubSeq(text, 1, cursor - 1) \o SubSeq(text, cursor + gone, Len(text))
                /\ cursor' = cursor - 1]_vars

\* A backspace between the parentheses of "()" deleted both.
C18_Witness ==
    /\ bufRes.op = "backspace"
    /\ bufRes.deleted = <<"(", ")">>
    /\ text = <<>>
    /\ cursor = 0

\* C19: the autoclosing flag is false exactly when the most recent bracket
\* event (inserting "[", deleting "[" alone or within the pair "[]",
\* deleting "]") was the deletion of a "]"; it is true initially.
C19_AutoclosingFollowsLastBracket ==
    (autoclosing = FALSE) <=> (bufRes.bracket = "delete ]")

\* ------------------------------------------------------- grammar claims
\* C11: parse_partial never lets a failure of the tolerant grammar escape:
\* for every text it returns, and whenever the tolerant grammar fails on the
\* text the result is the single span of the invalid style over the whole
\* text, with an empty whitespace map.
C11_NoFailureEscapes ==
    langRes.op = "parse_partial" =>
        /\ langRes.outcome = "ok"
        /\ parser_parse(commands,
                        get_tokens(cmdstr, StateName("interactive")).tokens).err # ""
             => /\ langRes.typer = <<PyTuple("commander_invalid", cmdstr)>>
                /\ langRes.wsmap = <<>>

\* C12: on every prefix of a line the strict grammar accepts, the tolerant
\* grammar raises no syntax error.
C12_PrefixesParse ==
    (langRes.op = "partial_parse" /\ StrictPrefix(cmdstr, oneword_commands))
        => ~langRes.syntax

\* C20: an unknown command name gives a node of the invalid style, no error
\* is raised and every argument appears in the node; a registered name gives
\* a node of the command style with the declared parameter types.
C20_UnknownCommandTolerated ==
    /\ langRes.op = "check_command" =>
         IF cmdstr \in DOMAIN commands
         THEN /\ langRes.markup_attr = "commander_command"
              /\ langRes.params = commands[cmdstr].paramtypes
         ELSE /\ langRes.markup_attr = "commander_invalid"
              /\ langRes.params = <<>>
    /\ langRes.op = "CommandSpace" =>
         /\ langRes.outcome = "ok"
         /\ \A k \in 1 .. Len(argv) :
              \E j \in 1 .. Len(langRes.arguments) : langRes.arguments[j].value = argv[k]
         /\ IF cmdstr \in DOMAIN commands
            THEN /\ langRes.markup_attr = "commander_command"
                 /\ \A k \in 1 .. Len(argv) :
                      k <= Len(commands[cmdstr].paramtypes)
                        => langRes.arguments[k].type = commands[cmdstr].paramtypes[k]
            ELSE langRes.markup_attr = "commander_invalid"

\* C21: the cursor of the buffer is always within [0, len(text)], whatever
\* sequence of insert, backspace, left, right and cycle_completion ran,
\* including left at 0, right at the end and a backspace that drops a pair.
C21_CursorInRange == cursor \in 0 .. Len(text)

\* C21 witness: a backspace has just dropped a pair of two characters and
\* the cursor is within the shortened text.
C21_Witness ==
    /\ bufRes.op = "backspace"
    /\ Len(bufRes.deleted) = 2
    /\ cursor \in 0 .. Len(text)

\* The token types an argument of a command line is typed with.
ArgTokens == {"PLAIN_STR", "QUOTED_STR", "COMMAND"}

\* From position `from` on, toks are arguments set apart by whitespace.
ArgRun(toks, from) ==
    \A k \in from .. Len(toks) :
        /\ toks[k].type \in ArgTokens \cup {"WHITESPACE"}
        /\ (k > from /\ toks[k].type \in ArgTokens) => toks[k - 1].type = "WHITESPACE"

\* A command name followed by arguments, without parentheses or after an
\* open parenthesis, with or without whitespace at the end.
CallForm(toks) ==
    /\ toks # <<>>
    /\ toks[1].type \in {"PLAIN_STR", "COMMAND"}
    /\ \/ /\ Len(toks) >= 2 => toks[2].type = "WHITESPACE"
          /\ ArgRun(toks, 2)
       \/ /\ Len(toks) >= 2
          /\ toks[2].type = "LPAREN"
          /\ ArgRun(toks, 3)

\* The display names of the parameters the arguments typed leave unfilled,
\* joined by single spaces.
UnfilledHint(params, toks) ==
    SpaceJoin([j \in 1 .. Len(SubSeq(params,
                                     Cardinality({k \in 2 .. Len(toks) :
                                                    toks[k].type \in ArgTokens}) + 1,
                                     Len(params))) |->
                 Display(SubSeq(params,
                                Cardinality({k \in 2 .. Len(toks) :
                                               toks[k].type \in ArgTokens}) + 1,
                                Len(params))[j])])

\* The hint of a markup: the text of its hint spans, the separating blank
\* span left out.
HintText(typer) ==
    Join(ValuesOfText(SelectSeq(typer, LAMBDA v : /\ v.k = "tuple"
                                                  /\ v.style = "commander_hint"
                                                  /\ ~IsSpace(v.text))))

\* C22: for a registered command with parameters T1..Tn followed by k typed
\* arguments, without parentheses or after an open parenthesis, the tolerant
\* grammar renders as hint exactly the display names of T(k+1)..Tn joined by
\* single spaces, and no hint when k >= n.
C22_HintsRemaining ==
    [][ (partial_parse /\ CallForm(langRes'.tokens)
                       /\ langRes'.tokens[1].value \in DOMAIN commands)
          => /\ langRes'.outcome = "ok"
             /\ HintText(langRes'.typer)
                  = UnfilledHint(commands[langRes'.tokens[1].value].paramtypes,
                                 langRes'.tokens) ]_vars

\* C23: a command node built for a non-variadic command with n declared
\* parameters and k arguments holds exactly k argument nodes in input order;
\* node i <= n is checked against the i-th declared type, every node i > n
\* is one node tagged invalid, and no error is raised.
C23_OneNodePerArgument ==
    [][ (/\ command_space
         /\ cmdstr \in DOMAIN commands
         /\ ~commands[cmdstr].has_positional)
          => /\ langRes'.outcome = "ok"
             /\ Len(langRes'.arguments) = Len(argv)
             /\ \A i \in 1 .. Len(argv) :
                  /\ langRes'.arguments[i].value = argv[i]
                  /\ IF i <= Len(commands[cmdstr].paramtypes)
                     THEN /\ langRes'.arguments[i].type = commands[cmdstr].paramtypes[i]
                          /\ langRes'.arguments[i].valid
                               = is_valid(commands, commands[cmdstr].paramtypes[i], argv[i])
                     ELSE ~langRes'.arguments[i].valid ]_vars

\* C24: in every interleaving of add_command, stop_command and task
\* completion, the done-callback runs on an id the tracker holds; fired for
\* a task that was cancelled and removed before, it does not fail, and it
\* never removes or alters the entry of another id.
C24_HookOnTrackedId ==
    [][ delete_callback
          => /\ Head(ready) \in DOMAIN running_cmds
             /\ asyncRes'.outcome = "ok"
             /\ \A c \in DOMAIN running_cmds \ {Head(ready)} :
                  /\ c \in DOMAIN running_cmds'
                  /\ running_cmds'[c] = running_cmds[c] ]_vars

\* C25: async_execute of a line that fails to parse raises the error to
\* the caller and leaves the execution tracker alone: no entry is added, the
\* id counter is not advanced and no task is scheduled, so the next line
\* that parses gets the id right after the last one issued.
C25_FailedSubmitLeavesTracker ==
    [][ \A s \in ExecLines :
          async_execute(s) =>
            IF StrictAccepts(create_lexer(s, oneword_commands))
            THEN /\ asyncRes'.outcome = "ok"
                 /\ asyncRes'.cid = counter + 1
            ELSE /\ asyncRes'.outcome = "CommandError"
                 /\ counter' = counter
                 /\ running_cmds' = running_cmds
                 /\ tasks' = tasks
                 /\ ready' = ready ]_vars

\* C25 witness: a line that does not parse was submitted after one that was
\* tracked, and the tracker still holds exactly what it held.
C25_Witness ==
    /\ asyncRes.op = "async_execute"
    /\ asyncRes.outcome = "CommandError"
    /\ ~StrictAccepts(create_lexer(cmdstr, oneword_commands))
    /\ counter = 1
    /\ DOMAIN running_cmds = {1}
    /\ DOMAIN tasks = {1}

====
